---- MODULE Spec2Model ----
(***************************************************************************)
(* Model of the python template of xo (templates/python/python.go and      *)
(* templates/python/schema.py.tpl): the SQL statement synthesizer          *)
(* (Funcs.sqlstr and its helpers) and the execute calls that the typedef   *)
(* template renders next to each statement.                                *)
(*                                                                         *)
(* A Go string that is assembled from pieces is a sequence of tokens       *)
(* [k, s, n]: k = "txt" for literal text, "col" for a column name written  *)
(* by colname or taken from Field.SQLName, "ph" for a placeholder returned *)
(* by the dialect's nth function (n is its index).  Concatenation is \o,   *)
(* and Text gives the characters.                                          *)
(***************************************************************************)
EXTENDS Integers, Sequences, FiniteSets, TLC

\* ---------------------------------------------------------------- bounds
MaxCols == 3

\* column names of the schema model, by column position
ColNames == <<"id", "name", "email", "class", "user_name">>

TableName == "users"

Drivers == {"postgres", "mysql", "sqlite3", "sqlserver", "oracle"}

OracleTypes == {"ora", "godror", ""}

EscModes == {"none", "schema", "table", "column", "all"}

Schemas == {"", "public"}

VARIABLES
    driver,      \* Funcs.driver
    oracleType,  \* Funcs.oracleType
    esc,         \* the value of the esc flag (EscKey) of the context
    schema,      \* Funcs.schema
    table,       \* the Table handed to the template (result of convertTable)
    val,         \* the value v handed to sqlstr, tagged with its Go type
    typ,         \* the typ argument of the last sqlstr call, "" before any
    lines,       \* the fragments the last sqlstr call joined
    binds,       \* the value list of the execute call rendered after it
    pc,          \* "start", "sql" (statement rendered), "run" (execute rendered)
    shorts,      \* the shorts map made by Init, the one every context is given
    conflict,    \* Funcs.conflict of the current context, "" before the first
    run,         \* how many contexts NewContext has made
    results,     \* the <<name, value>> pairs short has returned in this context
    last,        \* the last call of short, checkName or param
    prev,        \* the call of checkName or param before it
    ctx,         \* the context's single (SingleKey), append, notFirst and custom flags
    mode,        \* the mode Pre and Process are called with
    set,         \* the xo.Set: its Schemas and its Queries
    files,       \* the out map handed to Pre: file name -> existing content
    emitted,     \* the templates handed to emit so far, in order
    err,         \* the error the last of Pre or Process returned, "" for nil
    first,       \* Funcs.first
    firsts,      \* what the calls of the first template function returned
    gpc,         \* "init", "pre" (Pre returned), "funcs" (NewFuncs returned), "done" (Process returned)
    exists,      \* self._exists of the generated class's object
    deleted,     \* self._deleted
    call         \* the last method called on the object, what it executed and raised

sqlvars == <<driver, oracleType, esc, schema, table, val, typ, lines, binds, pc>>

regvars == <<shorts, conflict, run, results, last, prev>>

genvars == <<ctx, mode, set, files, emitted, err, first, firsts, gpc>>

objvars == <<exists, deleted, call>>

vars == <<sqlvars, regvars, genvars, objvars>>

\* ------------------------------------------------------ context accessors
contains(v, s) == s \in v

\* Esc(ctx, esc): the flag holds one of the enumerated values
Esc(what) == ~contains({esc}, "none") /\ (contains({esc}, "all") \/ contains({esc}, what))

escSchema == Esc("schema")
escTable == Esc("table")
escColumn == Esc("column")

\* ------------------------------------------------------------- tokens
Txt(s) == [k |-> "txt", s |-> s, n |-> 0]
ColTok(s) == [k |-> "col", s |-> s, n |-> 0]

\* the dialect-supplied numbering function: an opaque placeholder for index i
nth(i) == [k |-> "ph", s |-> "nth(" \o ToString(i) \o ")", n |-> i]

RECURSIVE Text(_)
Text(str) == IF str = <<>> THEN "" ELSE Head(str).s \o Text(Tail(str))

RECURSIVE Join(_, _)
\* strings.Join over a list of token strings
Join(list, sep) ==
    IF list = <<>> THEN <<>>
    ELSE IF Len(list) = 1 THEN list[1]
    ELSE list[1] \o <<Txt(sep)>> \o Join(Tail(list), sep)

escfn(s) == "\"" \o s \o "\""

colname(z) == IF escColumn THEN ColTok(escfn(z.SQLName)) ELSE ColTok(z.SQLName)

schemafn(name) ==
    LET n == IF escTable THEN escfn(name) ELSE name
    IN  IF schema = "" /\ n = "" THEN ""
        ELSE IF driver = "sqlite3" /\ n = "" THEN schema
        ELSE IF driver = "sqlite3" THEN n
        ELSE IF schema # "" /\ n # ""
             THEN (IF escSchema THEN escfn(schema) ELSE schema) \o "." \o n
        ELSE schema \o n

\* ------------------------------------------------------- schema conversion
\* snaker.ForceLowerCamelIdentifier on the column names of the model
pascal(name) == IF name = "user_name" THEN "userName" ELSE name

convertField(f) ==
    [PythonName |-> pascal(f.Name), SQLName |-> f.Name,
     IsPrimary |-> f.IsPrimary, IsSequence |-> f.IsSequence]

\* convertTable appending every field to pkCols
convertTable_allpk(t) ==
    LET cols == [i \in 1..Len(t.Columns) |-> convertField(t.Columns[i])]
    IN  [SQLName |-> t.Name,
         Fields |-> cols,
         PrimaryKeys |-> cols,
         Manual |-> t.Manual]

convertTable(t) ==
    LET cols == [i \in 1..Len(t.Columns) |-> convertField(t.Columns[i])]
    IN  [SQLName |-> t.Name,
         Fields |-> cols,
         PrimaryKeys |-> SelectSeq(cols, LAMBDA c : c.IsPrimary),
         Manual |-> t.Manual]

\* the xo.Table values of the schema model: 1..MaxCols columns, named by position
XoColumns(n) ==
    { [i \in 1..n |-> [Name |-> ColNames[i], IsPrimary |-> p[i], IsSequence |-> s[i]]] :
        p \in [1..n -> BOOLEAN], s \in [1..n -> BOOLEAN] }

XoTables ==
    { [Name |-> TableName, Columns |-> c, Manual |-> m] :
        c \in UNION { XoColumns(n) : n \in 1..MaxCols }, m \in BOOLEAN }

\* ------------------------------------------------------------ sqlstr: insert
RECURSIVE InsertLoopGap(_, _, _, _, _)
\* InsertLoop with the index advanced over a skipped sequence column as well
InsertLoopGap(fs, all, n, fields, vals) ==
    IF fs = <<>> THEN [fields |-> fields, vals |-> vals]
    ELSE IF Head(fs).IsSequence /\ ~all
         THEN InsertLoopGap(Tail(fs), all, n + 1, fields, vals)
         ELSE InsertLoopGap(Tail(fs), all, n + 1,
                            Append(fields, <<colname(Head(fs))>>),
                            Append(vals, <<nth(n)>>))

RECURSIVE InsertLoop(_, _, _, _, _)
\* the loop of sqlstr_insert_base over x.Fields
InsertLoop(fs, all, n, fields, vals) ==
    IF fs = <<>> THEN [fields |-> fields, vals |-> vals]
    ELSE IF Head(fs).IsSequence /\ ~all
         THEN InsertLoop(Tail(fs), all, n, fields, vals)
         ELSE InsertLoop(Tail(fs), all, n + 1,
                         Append(fields, <<colname(Head(fs))>>),
                         Append(vals, <<nth(n)>>))

sqlstr_insert_base(all, x) ==
    LET r == InsertLoop(x.Fields, all, 0, <<>>, <<>>)
    IN  << <<Txt("INSERT INTO " \o schemafn(x.SQLName) \o " (")>>,
           Join(r.fields, ", "),
           <<Txt(") VALUES (")>>,
           Join(r.vals, ", "),
           <<Txt(")")>> >>

\* sqlstr_insert_manual skipping the sequence columns like the plain insert
sqlstr_insert_manual_skip(x) == sqlstr_insert_base(FALSE, x)

sqlstr_insert_manual(x) == sqlstr_insert_base(TRUE, x)

zeroField == [PythonName |-> "", SQLName |-> "", IsPrimary |-> FALSE, IsSequence |-> FALSE]

\* lines[len(lines)-1] += s
AppendLast(ls, s) == [ls EXCEPT ![Len(ls)] = @ \o s]

RECURSIVE SeqLoop(_, _, _)
\* the loop of sqlstr_insert: the last sequence field and the count of the others
SeqLoop(fs, seq, count) ==
    IF fs = <<>> THEN [seq |-> seq, count |-> count]
    ELSE IF Head(fs).IsSequence
         THEN SeqLoop(Tail(fs), Head(fs), count)
         ELSE SeqLoop(Tail(fs), seq, count + 1)

\* sqlstr_insert numbering the oracle output parameter like the first input
sqlstr_insert_into_first(x) ==
    LET r == SeqLoop(x.Fields, zeroField, 0)
        ls == sqlstr_insert_base(FALSE, x)
    IN  IF driver = "oracle"
        THEN IF oracleType = "ora"
             THEN AppendLast(ls, <<Txt(" RETURNING "), colname(r.seq), Txt(" INTO "), nth(0)>>)
             ELSE IF oracleType = "godror"
             THEN AppendLast(ls, <<Txt(" RETURNING "), colname(r.seq), Txt(" /*LASTINSERTID*/ INTO :pk")>>)
             ELSE << <<Txt("[[ UNSUPPORTED ORACLE TYPE: " \o oracleType \o "]]")>> >>
        ELSE IF driver = "postgres"
        THEN AppendLast(ls, <<Txt(" RETURNING "), colname(r.seq)>>)
        ELSE IF driver = "sqlserver"
        THEN AppendLast(ls, <<Txt("; SELECT ID = CONVERT(BIGINT, SCOPE_IDENTITY())")>>)
        ELSE ls

sqlstr_insert(x) ==
    LET r == SeqLoop(x.Fields, zeroField, 0)
        ls == sqlstr_insert_base(FALSE, x)
    IN  IF driver = "oracle"
        THEN IF oracleType = "ora"
             THEN AppendLast(ls, <<Txt(" RETURNING "), colname(r.seq), Txt(" INTO "), nth(r.count)>>)
             ELSE IF oracleType = "godror"
             THEN AppendLast(ls, <<Txt(" RETURNING "), colname(r.seq), Txt(" /*LASTINSERTID*/ INTO :pk")>>)
             ELSE << <<Txt("[[ UNSUPPORTED ORACLE TYPE: " \o oracleType \o "]]")>> >>
        ELSE IF driver = "postgres"
        THEN AppendLast(ls, <<Txt(" RETURNING "), colname(r.seq)>>)
        ELSE IF driver = "sqlserver"
        THEN AppendLast(ls, <<Txt("; SELECT ID = CONVERT(BIGINT, SCOPE_IDENTITY())")>>)
        ELSE ls

\* ------------------------------------------------------------ sqlstr: update
RECURSIVE UpdateLoop(_, _, _, _)
\* the loop of sqlstr_update_base over x.Fields
UpdateLoop(fs, prefix, n, list) ==
    IF fs = <<>> THEN [n |-> n, list |-> list]
    ELSE IF Head(fs).IsPrimary
         THEN UpdateLoop(Tail(fs), prefix, n, list)
         ELSE LET name == colname(Head(fs))
                  param == IF prefix # "" THEN <<Txt(prefix), name>> ELSE <<nth(n)>>
              IN  UpdateLoop(Tail(fs), prefix, n + 1,
                             Append(list, <<name, Txt(" = ")>> \o param))

sqlstr_update_base(prefix, x) ==
    LET r == UpdateLoop(x.Fields, prefix, 0, <<>>)
        name == IF prefix = "" THEN schemafn(x.SQLName) \o " " ELSE ""
    IN  [n |-> r.n,
         lines |-> << <<Txt("UPDATE " \o name \o "SET ")>>,
                      Join(r.list, ", ") \o <<Txt(" ")>> >>]

\* sqlstr_update numbering the WHERE placeholders from 0 again
sqlstr_update_restart(x) ==
    LET b == sqlstr_update_base("", x)
        list == [i \in 1..Len(x.PrimaryKeys) |->
                    <<colname(x.PrimaryKeys[i]), Txt(" = "), nth(i - 1)>>]
    IN  Append(b.lines, <<Txt("WHERE ")>> \o Join(list, " AND "))

sqlstr_update(x) ==
    LET b == sqlstr_update_base("", x)
        list == [i \in 1..Len(x.PrimaryKeys) |->
                    <<colname(x.PrimaryKeys[i]), Txt(" = "), nth(b.n + (i - 1))>>]
    IN  Append(b.lines, <<Txt("WHERE ")>> \o Join(list, " AND "))

\* ------------------------------------------------------------ sqlstr: upsert
\* sqlstr_upsert_postgres_sqlite with every column in the conflict target
sqlstr_upsert_postgres_sqlite_all(x) ==
    LET conflicts == [i \in 1..Len(x.Fields) |-> <<ColTok(x.Fields[i].SQLName)>>]
        ls == << <<Txt(" ON CONFLICT (")>> \o Join(conflicts, ", ") \o <<Txt(") DO ")>> >>
    IN  ls \o sqlstr_update_base("EXCLUDED.", x).lines

sqlstr_upsert_postgres_sqlite(x) ==
    LET conflicts == [i \in 1..Len(x.PrimaryKeys) |-> <<ColTok(x.PrimaryKeys[i].SQLName)>>]
        ls == << <<Txt(" ON CONFLICT (")>> \o Join(conflicts, ", ") \o <<Txt(") DO ")>> >>
    IN  ls \o sqlstr_update_base("EXCLUDED.", x).lines

\* sqlstr_upsert_mysql skipping the primary-key columns instead of the sequence columns
sqlstr_upsert_mysql_nonpk(x) ==
    LET fs == SelectSeq(x.Fields, LAMBDA z : ~z.IsPrimary)
        list == [i \in 1..Len(fs) |->
                    <<colname(fs[i]), Txt(" = VALUES("), colname(fs[i]), Txt(")")>>]
    IN  << <<Txt(" ON DUPLICATE KEY UPDATE ")>>, Join(list, ", ") >>

sqlstr_upsert_mysql(x) ==
    LET fs == SelectSeq(x.Fields, LAMBDA z : ~z.IsSequence)
        list == [i \in 1..Len(fs) |->
                    <<colname(fs[i]), Txt(" = VALUES("), colname(fs[i]), Txt(")")>>]
    IN  << <<Txt(" ON DUPLICATE KEY UPDATE ")>>, Join(list, ", ") >>

RECURSIVE MergeLoopKeepSeq(_, _, _, _)
\* MergeLoop without the skip of sequence columns
MergeLoopKeepSeq(fs, updateParams, insertParams, insertVals) ==
    IF fs = <<>>
    THEN [updateParams |-> updateParams, insertParams |-> insertParams, insertVals |-> insertVals]
    ELSE LET n == Head(fs).SQLName
         IN  MergeLoopKeepSeq(Tail(fs),
                     IF ~Head(fs).IsPrimary
                     THEN Append(updateParams, <<Txt("t."), ColTok(n), Txt(" = s."), ColTok(n)>>)
                     ELSE updateParams,
                     Append(insertParams, <<ColTok(n)>>),
                     Append(insertVals, <<Txt("s."), ColTok(n)>>))

RECURSIVE MergeLoop(_, _, _, _)
\* the "build param lists" loop of sqlstr_upsert_sqlserver_oracle
MergeLoop(fs, updateParams, insertParams, insertVals) ==
    IF fs = <<>>
    THEN [updateParams |-> updateParams, insertParams |-> insertParams, insertVals |-> insertVals]
    ELSE IF Head(fs).IsSequence
         THEN MergeLoop(Tail(fs), updateParams, insertParams, insertVals)
         ELSE LET n == Head(fs).SQLName
              IN  MergeLoop(Tail(fs),
                     IF ~Head(fs).IsPrimary
                     THEN Append(updateParams, <<Txt("t."), ColTok(n), Txt(" = s."), ColTok(n)>>)
                     ELSE updateParams,
                     Append(insertParams, <<ColTok(n)>>),
                     Append(insertVals, <<Txt("s."), ColTok(n)>>))

sqlstr_upsert_sqlserver_oracle(x) ==
    LET merge == IF driver = "sqlserver"
                 THEN << <<Txt("MERGE " \o schemafn(x.SQLName) \o " AS t ")>> >>
                 ELSE IF driver = "oracle"
                 THEN << <<Txt("MERGE " \o schemafn(x.SQLName) \o "t ")>> >>
                 ELSE <<>>
        fields == [i \in 1..Len(x.Fields) |->
                    <<nth(i - 1), Txt(" "), ColTok(x.Fields[i].SQLName)>>]
        predicate == [i \in 1..Len(x.PrimaryKeys) |->
                    <<Txt("s."), ColTok(x.PrimaryKeys[i].SQLName),
                      Txt(" = t."), ColTok(x.PrimaryKeys[i].SQLName)>>]
        closing == IF driver = "sqlserver" THEN ") AS s "
                   ELSE IF driver = "oracle" THEN "FROM DUAL ) s "
                   ELSE ""
        r == MergeLoop(x.Fields, <<>>, <<>>, <<>>)
    IN  merge \o
        << <<Txt("USING (")>>,
           <<Txt("SELECT ")>> \o Join(fields, ", ") \o <<Txt(" ")>>,
           <<Txt(closing)>>,
           <<Txt("ON ")>> \o Join(predicate, " AND ") \o <<Txt(" ")>>,
           <<Txt("WHEN MATCHED THEN ")>>,
           <<Txt("UPDATE SET ")>>,
           Join(r.updateParams, ", ") \o <<Txt(" ")>>,
           <<Txt("WHEN NOT MATCHED THEN ")>>,
           <<Txt("INSERT (")>>,
           Join(r.insertParams, ", "),
           <<Txt(") VALUES (")>>,
           Join(r.insertVals, ", "),
           <<Txt(");")>> >>

\* sqlstr_upsert with the insert fragments kept in front of the MERGE statement too
sqlstr_upsert_keep(x) ==
    LET ls == sqlstr_insert_base(TRUE, x)
    IN  IF driver \in {"postgres", "sqlite3"} THEN ls \o sqlstr_upsert_postgres_sqlite(x)
        ELSE IF driver = "mysql" THEN ls \o sqlstr_upsert_mysql(x)
        ELSE IF driver \in {"sqlserver", "oracle"} THEN ls \o sqlstr_upsert_sqlserver_oracle(x)
        ELSE << <<Txt("[[ UNSUPPORTED TYPE 21 " \o driver \o ": Table ]]")>> >>

sqlstr_upsert(x) ==
    LET ls == sqlstr_insert_base(TRUE, x)
    IN  IF driver \in {"postgres", "sqlite3"} THEN ls \o sqlstr_upsert_postgres_sqlite(x)
        ELSE IF driver = "mysql" THEN ls \o sqlstr_upsert_mysql(x)
        ELSE IF driver \in {"sqlserver", "oracle"} THEN sqlstr_upsert_sqlserver_oracle(x)
        ELSE << <<Txt("[[ UNSUPPORTED TYPE 21 " \o driver \o ": Table ]]")>> >>

\* ------------------------------------------------------------ sqlstr: delete
\* sqlstr_delete with the equalities joined by a comma
sqlstr_delete_comma(x) ==
    LET list == [i \in 1..Len(x.PrimaryKeys) |->
                    <<colname(x.PrimaryKeys[i]), Txt(" = "), nth(i - 1)>>]
    IN  << <<Txt("DELETE FROM " \o schemafn(x.SQLName) \o " ")>>,
           <<Txt("WHERE ")>> \o Join(list, ", ") >>

sqlstr_delete(x) ==
    LET list == [i \in 1..Len(x.PrimaryKeys) |->
                    <<colname(x.PrimaryKeys[i]), Txt(" = "), nth(i - 1)>>]
    IN  << <<Txt("DELETE FROM " \o schemafn(x.SQLName) \o " ")>>,
           <<Txt("WHERE ")>> \o Join(list, " AND ") >>

\* the switch of sqlstr: the fragments joined into the statement
sqlstr(t, x) ==
    CASE t = "insert_manual" -> sqlstr_insert_manual(x)
      [] t = "insert" -> sqlstr_insert(x)
      [] t = "update" -> sqlstr_update(x)
      [] t = "upsert" -> sqlstr_upsert(x)
      [] t = "delete" -> sqlstr_delete(x)
      [] OTHER -> << <<Txt("UNKNOWN QUERY TYPE: " \o t)>> >>

\* ------------------------------------------------- names and execute calls
(***************************************************************************)
(* A Go string holding a ", "-joined list of names is the sequence of its  *)
(* ", "-separated elements; an element is the sequence of the pieces it    *)
(* was concatenated from (such as <<"self.", "name">>).  The empty string  *)
(* is one empty element.                                                   *)
(***************************************************************************)
EmptyStr == << <<>> >>

\* the map from a reserved name of Python to the name written instead
pythonReservedNames ==
    ("False" :> "false") @@ ("None" :> "none") @@ ("True" :> "true") @@
    ("and" :> "and_") @@ ("as" :> "as_") @@ ("assert" :> "assrt") @@
    ("break" :> "brk") @@ ("class" :> "cls") @@ ("continue" :> "cnt") @@
    ("def" :> "def_") @@ ("elif" :> "elf") @@ ("else" :> "els") @@
    ("except" :> "expt") @@ ("finally" :> "fnl") @@ ("for" :> "for_") @@
    ("from" :> "frm") @@ ("global" :> "glb") @@ ("if" :> "if_") @@
    ("import" :> "impt") @@ ("in" :> "in_") @@ ("is" :> "is_") @@
    ("lambda" :> "lbd") @@ ("nonlocal" :> "nlcl") @@ ("not" :> "not_") @@
    ("or" :> "or_") @@ ("pass" :> "pss") @@ ("raise" :> "rse") @@
    ("return" :> "rtn") @@ ("try" :> "try_") @@ ("while" :> "whl") @@
    ("with" :> "wth") @@ ("yield" :> "yld") @@ ("int" :> "i") @@
    ("float" :> "f") @@ ("complex" :> "c") @@ ("list" :> "l") @@
    ("tuple" :> "t") @@ ("range" :> "r") @@ ("str" :> "s") @@
    ("bytes" :> "b") @@ ("bytearray" :> "ba") @@ ("memoryview" :> "m") @@
    ("set" :> "st") @@ ("frozenset" :> "fs") @@ ("dict" :> "d") @@
    ("type" :> "t") @@ ("bool" :> "bl")

\* the names the templates use themselves
templateReservedNames ==
    {"ctx", "db", "err", "log", "logf", "res",
     "rows", "context", "csv", "driver", "errors", "fmt",
     "hstore", "regexp", "sql", "strings", "time", "uuid"}

checkName(name) ==
    IF name \in DOMAIN pythonReservedNames THEN pythonReservedNames[name] ELSE name

RECURSIVE JoinNames(_)
\* strings.Join(names, ", ")
JoinNames(names) ==
    IF names = <<>> THEN EmptyStr
    ELSE IF Len(names) = 1 THEN names[1]
    ELSE names[1] \o JoinNames(Tail(names))

\* prefix + x
PrefixStr(prefix, x) == << <<prefix>> \o x[1] >> \o Tail(x)

StringArg(x) == [t |-> "string", v |-> x]
TableArg(x) == [t |-> "Table", v |-> x]
FieldsArg(x) == [t |-> "Fields", v |-> x]

RECURSIVE NamesLoop(_, _, _)
\* the loop of namesfn over its arguments
NamesLoop(prefix, z, names) ==
    IF z = <<>> THEN names
    ELSE LET a == Head(z)
             fs == IF a.t = "Table" THEN a.v.Fields ELSE a.v
             more == IF a.t = "string"
                     THEN << PrefixStr(prefix, a.v) >>
                     ELSE [i \in 1..Len(fs) |-> << <<prefix, checkName(fs[i].PythonName)>> >>]
         IN  NamesLoop(prefix, Tail(z), names \o more)

namesfn(all, prefix, z) == JoinNames(NamesLoop(prefix, z, <<>>))

names(prefix, z) == namesfn(FALSE, prefix, z)

names_ignore(prefix, fs, ignore) ==
    namesfn(TRUE, prefix, << FieldsArg(SelectSeq(fs, LAMBDA p : p.PythonName \notin ignore)) >>)

\* db: the list between the brackets of cursor.<name>(sqlstr, [...])
db(v) == names("self.", v)

db_update(x) ==
    LET ignore == { x.PrimaryKeys[i].PythonName : i \in 1..Len(x.PrimaryKeys) }
        p == << names_ignore("self.", x.Fields, ignore),
                names("self.", << FieldsArg(x.PrimaryKeys) >>) >>
    IN  db(<< StringArg(JoinNames(p)) >>)

\* the shorts map as Init makes it
InitShorts ==
    ("bool" :> "b") @@ ("str" :> "s") @@ ("bytes" :> "b") @@ ("int" :> "i") @@
    ("float" :> "f") @@ ("list[bool]" :> "l") @@ ("list[bytes]" :> "l") @@
    ("list[float]" :> "l") @@ ("list[int]" :> "l") @@ ("list[string]" :> "l")

\* no call of short, checkName or param yet
NoCall == [op |-> "", arg |-> "", cased |-> "", res |-> "", miss |-> FALSE, addType |-> FALSE]

\* the naming state of a run that only renders statements
RegIdle ==
    /\ shorts = InitShorts
    /\ conflict = ""
    /\ run = 0
    /\ results = {}
    /\ last = NoCall
    /\ prev = NoCall

\* an empty xo.Set
NoSet == [Schemas |-> <<>>, Queries |-> <<>>]

\* the generation state of a run that only renders statements or names
GenIdle ==
    /\ ctx = [single |-> "", append |-> FALSE, notFirst |-> FALSE, custom |-> <<>>]
    /\ mode = "schema"
    /\ set = NoSet
    /\ files = <<>>
    /\ emitted = <<>>
    /\ err = ""
    /\ first = TRUE
    /\ firsts = <<>>
    /\ gpc = "init"

\* no method of the generated class called yet
NoMethod == [op |-> "", stmts |-> <<>>, raised |-> ""]

\* an object of the generated class as __init__ leaves it
ObjIdle ==
    /\ exists = FALSE
    /\ deleted = FALSE
    /\ call = NoMethod

Init ==
    /\ driver \in Drivers
    /\ oracleType \in (IF driver = "oracle" THEN OracleTypes ELSE {""})
    /\ esc \in EscModes
    /\ schema \in Schemas
    /\ table \in { convertTable(t) : t \in XoTables }
    /\ val = TableArg(table)
    /\ typ = ""
    /\ lines = <<>>
    /\ binds = <<>>
    /\ pc = "start"
    /\ RegIdle
    /\ GenIdle
    /\ ObjIdle

\* {{ sqlstr t "..." $t }} in the typedef template: each generated method
\* renders one statement, then its execute call
SqlstrCall(t) ==
    /\ pc = "start"
    /\ typ' = t
    /\ lines' = sqlstr(t, table)
    /\ binds' = <<>>
    /\ pc' = "sql"
    /\ UNCHANGED <<driver, oracleType, esc, schema, table, val>>
    /\ UNCHANGED <<regvars, genvars, objvars>>

Sqlstr_insert_manual == SqlstrCall("insert_manual")
Sqlstr_insert == SqlstrCall("insert")
Sqlstr_update == SqlstrCall("update")
Sqlstr_upsert == SqlstrCall("upsert")
Sqlstr_delete == SqlstrCall("delete")

\* {{ db "execute" ... }} after the insert, upsert and delete statements
Db ==
    /\ pc = "sql"
    /\ \/ typ = "insert_manual" /\ table.Manual
       \/ /\ typ = "insert" /\ ~table.Manual
          \* the branch goes on to (index $t.PrimaryKeys 0), which fails on none
          /\ Len(table.PrimaryKeys) > 0
       \/ typ \in {"upsert", "delete"}
    /\ binds' = IF typ = "delete"
                THEN IF Len(table.PrimaryKeys) = 1
                     THEN db(<< StringArg(<< <<table.PrimaryKeys[1].PythonName>> >>) >>)
                     ELSE db(<< FieldsArg(table.PrimaryKeys) >>)
                ELSE db(<< TableArg(table) >>)
    /\ pc' = "run"
    /\ UNCHANGED <<driver, oracleType, esc, schema, table, val, typ, lines>>
    /\ UNCHANGED <<regvars, genvars, objvars>>

\* {{ db_update "execute" $t }} after the update statement
DbUpdate ==
    /\ pc = "sql"
    /\ typ = "update"
    /\ Len(table.Fields) # Len(table.PrimaryKeys)
    /\ binds' = db_update(table)
    /\ pc' = "run"
    /\ UNCHANGED <<driver, oracleType, esc, schema, table, val, typ, lines>>
    /\ UNCHANGED <<regvars, genvars, objvars>>

Next ==
    \/ Sqlstr_insert_manual
    \/ Sqlstr_insert
    \/ Sqlstr_update
    \/ Sqlstr_upsert
    \/ Sqlstr_delete
    \/ Db
    \/ DbUpdate

Spec == Init /\ [][Next]_vars

\* ------------------------------------------- sqlstr over any template value
MaxIdx == 2
MaxParams == 2

ProcName == "get_user"

ParamNames == <<"a", "b", "c">>

ReturnNames == <<"r", "s", "t">>

ProcTypes == {"function", "procedure"}

\* the typ arguments of the model; "select" is not a case of the switch
QueryTypes == {"insert_manual", "insert", "update", "upsert", "delete", "proc", "index", "select"}

IndexArg(x) == [t |-> "Index", v |-> x]
ProcArg(x) == [t |-> "Proc", v |-> x]

\* what %T prints for a value of the template package
TypeName(v) == IF v.t = "string" THEN "string" ELSE "pytpl." \o v.t

convertIndex(t, i) ==
    [SQLName |-> i.Name,
     Table |-> t,
     Fields |-> [k \in 1..Len(i.Fields) |-> convertField(i.Fields[k])]]

convertProc(p) ==
    [Type |-> p.Type,
     SQLName |-> p.Name,
     Params |-> [k \in 1..Len(p.Params) |-> convertField(p.Params[k])],
     Returns |-> [k \in 1..Len(p.Returns) |-> convertField(p.Returns[k])]]

\* the sequences of 1..MaxIdx distinct columns of a table, in any order
IndexFields(t) ==
    { q \in UNION { [1..n -> 1..Len(t.Columns)] : n \in 1..MaxIdx } :
        \A a, b \in DOMAIN q : a # b => q[a] # q[b] }

\* the xo.Index values of a table of the schema model
XoIndexes(t) ==
    { [Name |-> t.Name \o "_idx", Fields |-> [k \in DOMAIN q |-> t.Columns[q[k]]]] :
        q \in IndexFields(t) }

XoParams(nms, n) ==
    [k \in 1..n |-> [Name |-> nms[k], IsPrimary |-> FALSE, IsSequence |-> FALSE]]

\* the xo.Proc values of the schema model
XoProcs ==
    { [Type |-> ty, Name |-> ProcName, Params |-> XoParams(ParamNames, n), Returns |-> XoParams(ReturnNames, m)] :
        ty \in ProcTypes, n \in 0..MaxParams, m \in 0..1 }

\* ------------------------------------------------------------- fmt.Sprintf
(***************************************************************************)
(* A format is the sequence of its literal pieces and verbs; the arguments *)
(* are strings.  A verb without an index takes the next argument, %[k]s    *)
(* takes argument k; arguments left over when no verb carried an index are *)
(* reported in a trailing %!(EXTRA ...).                                   *)
(***************************************************************************)
Lit(s) == [f |-> "lit", s |-> s, ix |-> 0]
Verb == [f |-> "verb", s |-> "%s", ix |-> 0]
VerbAt(k) == [f |-> "verb", s |-> "%[" \o ToString(k) \o "]s", ix |-> k]

RECURSIVE ExtraArgs(_)
ExtraArgs(args) ==
    IF args = <<>> THEN <<>>
    ELSE <<Txt("string=")>> \o Head(args) \o
         (IF Len(args) > 1 THEN <<Txt(", ")>> ELSE <<>>) \o ExtraArgs(Tail(args))

RECURSIVE SprintfLoop(_, _, _, _, _)
SprintfLoop(format, args, argNum, reordered, out) ==
    IF format = <<>>
    THEN IF ~reordered /\ argNum < Len(args)
         THEN out \o <<Txt("%!(EXTRA ")>> \o ExtraArgs(SubSeq(args, argNum + 1, Len(args))) \o <<Txt(")")>>
         ELSE out
    ELSE LET h == Head(format)
             a == IF h.ix > 0 THEN h.ix - 1 ELSE argNum
         IN  IF h.f = "lit"
             THEN SprintfLoop(Tail(format), args, argNum, reordered, out \o <<Txt(h.s)>>)
             ELSE SprintfLoop(Tail(format), args, a + 1, reordered \/ h.ix > 0,
                              out \o (IF a < Len(args) THEN args[a + 1]
                                      ELSE <<Txt("%!s(MISSING)")>>))

Sprintf(format, args) == SprintfLoop(format, args, 0, FALSE, <<>>)

\* ------------------------------------------------------ sqlstr: index, proc
\* the type switch falling through without a line
Unsupported_skip(n, v) == <<>>

\* the line returned when the type switch falls through
Unsupported(n, v) == << <<Txt("[[ UNSUPPORTED TYPE " \o n \o ": " \o TypeName(v) \o " ]]")>> >>

\* sqlstr_index selecting the index fields only
sqlstr_index_keys(v) ==
    IF v.t = "Index"
    THEN LET x == v.v
             fields == [i \in 1..Len(x.Fields) |-> <<colname(x.Fields[i])>>]
             list == [i \in 1..Len(x.Fields) |->
                        <<colname(x.Fields[i]), Txt(" = "), nth(i - 1)>>]
         IN  << <<Txt("SELECT ")>>,
                Join(fields, ", ") \o <<Txt(" ")>>,
                <<Txt("FROM " \o schemafn(x.Table.SQLName) \o " ")>>,
                <<Txt("WHERE ")>> \o Join(list, " AND ") >>
    ELSE Unsupported("26", v)

sqlstr_index(v) ==
    IF v.t = "Index"
    THEN LET x == v.v
             fields == [i \in 1..Len(x.Table.Fields) |-> <<colname(x.Table.Fields[i])>>]
             list == [i \in 1..Len(x.Fields) |->
                        <<colname(x.Fields[i]), Txt(" = "), nth(i - 1)>>]
         IN  << <<Txt("SELECT ")>>,
                Join(fields, ", ") \o <<Txt(" ")>>,
                <<Txt("FROM " \o schemafn(x.Table.SQLName) \o " ")>>,
                <<Txt("WHERE ")>> \o Join(list, " AND ") >>
    ELSE Unsupported("26", v)

\* sqlstr_func without the parameter list
sqlstr_func_noargs(v) ==
    IF v.t = "Proc"
    THEN << <<Txt("SELECT "), Txt(schemafn(v.v.SQLName)), Txt("()")>> >>
    ELSE Unsupported("28", v)

sqlstr_func(v) ==
    IF v.t = "Proc"
    THEN LET x == v.v
             format == CASE driver = "postgres" ->
                              <<Lit("SELECT * FROM "), Verb, Lit("("), Verb, Lit(")")>>
                         [] driver = "mysql" ->
                              <<Lit("SELECT "), Verb, Lit("("), Verb, Lit(")")>>
                         [] driver = "sqlserver" ->
                              <<Lit("SELECT "), Verb, Lit("("), Verb, Lit(") AS OUT")>>
                         [] driver = "oracle" ->
                              <<Lit("SELECT "), Verb, Lit("("), Verb, Lit(") FROM dual")>>
                         [] OTHER -> <<>>
             list == [i \in 1..Len(x.Params) |-> <<nth(i - 1)>>]
         IN  << Sprintf(format, << <<Txt(schemafn(x.SQLName))>>, Join(list, ", ") >>) >>
    ELSE Unsupported("28", v)

sqlstr_proc(v) ==
    IF v.t = "Proc"
    THEN LET x == v.v
             format == CASE driver \in {"postgres", "mysql"} ->
                              <<Lit("CALL "), Verb, Lit("("), Verb, Lit(")")>>
                         [] driver = "sqlserver" -> <<VerbAt(1)>>
                         [] driver = "oracle" ->
                              <<Lit("BEGIN "), Verb, Lit("("), Verb, Lit("); END;")>>
                         [] OTHER -> <<>>
             l == IF driver = "oracle" THEN x.Params \o x.Returns ELSE x.Params
             list == [i \in 1..Len(l) |->
                        IF driver = "oracle" THEN <<Txt(":"), ColTok(l[i].SQLName)>>
                        ELSE <<nth(i - 1)>>]
             name == IF driver = "oracle" THEN x.SQLName ELSE schemafn(x.SQLName)
         IN  IF x.Type = "function" THEN sqlstr_func(v)
             ELSE << Sprintf(format, << <<Txt(name)>>, Join(list, ", ") >>) >>
    ELSE Unsupported("27", v)

\* the switch of sqlstr, and the type switch of the function it selects, for
\* a value of any type
sqlstr_any(t, v) ==
    CASE t = "proc" -> sqlstr_proc(v)
      [] t = "index" -> sqlstr_index(v)
      [] t = "insert_manual" /\ v.t # "Table" -> Unsupported("17", v)
      [] t = "insert" /\ v.t # "Table" -> Unsupported("18", v)
      [] t = "update" /\ v.t # "Table" -> Unsupported("20", v)
      [] t = "upsert" /\ v.t # "Table" -> Unsupported("21 " \o driver, v)
      [] t = "delete" /\ v.t # "Table" -> Unsupported("25", v)
      [] OTHER -> sqlstr(t, v.v)

\* the tables of the second specification: the first column is the primary
\* key, no sequence column (sqlstr_index and sqlstr_proc read neither flag)
SynthTables ==
    { t \in XoTables :
        /\ ~t.Manual
        /\ \A i \in 1..Len(t.Columns) :
              /\ t.Columns[i].IsPrimary = (i = 1)
              /\ ~t.Columns[i].IsSequence }

SynthInit ==
    /\ driver \in Drivers
    /\ oracleType \in (IF driver = "oracle" THEN OracleTypes ELSE {""})
    /\ esc \in EscModes
    /\ schema \in Schemas
    /\ \E xt \in SynthTables :
          /\ table = convertTable(xt)
          /\ val \in {TableArg(convertTable(xt))}
                    \cup { IndexArg(convertIndex(convertTable(xt), i)) : i \in XoIndexes(xt) }
                    \cup { ProcArg(convertProc(p)) : p \in XoProcs }
    /\ typ = ""
    /\ lines = <<>>
    /\ binds = <<>>
    /\ pc = "start"
    /\ RegIdle
    /\ GenIdle
    /\ ObjIdle

\* {{ sqlstr t "..." v }}: the function returns a string and nothing else, so
\* the template goes on rendering with whatever text came back
SqlstrValue(t) ==
    /\ pc = "start"
    /\ typ' = t
    /\ lines' = sqlstr_any(t, val)
    /\ binds' = <<>>
    /\ pc' = "sql"
    /\ UNCHANGED <<driver, oracleType, esc, schema, table, val>>
    /\ UNCHANGED <<regvars, genvars, objvars>>

Sqlstr_index == SqlstrValue("index")
Sqlstr_proc == SqlstrValue("proc")
Sqlstr_table == \E t \in {"insert_manual", "insert", "update", "upsert", "delete"} : SqlstrValue(t)
Sqlstr_unknown == \E t \in QueryTypes \ {"insert_manual", "insert", "update", "upsert", "delete", "proc", "index"} : SqlstrValue(t)

SynthNext ==
    \/ Sqlstr_index
    \/ Sqlstr_proc
    \/ Sqlstr_table
    \/ Sqlstr_unknown

SpecSynth == SynthInit /\ [][SynthNext]_vars

\* ----------------------------------------------------- identifiers: letters
(***************************************************************************)
(* An identifier that the code takes apart (splits into words, slices,     *)
(* lower-cases) is the sequence of its characters; Str gives the string    *)
(* that the maps are keyed by.                                             *)
(***************************************************************************)
MaxRuns == 2

Uppers == <<"A", "B", "C", "D", "E", "F", "G", "H", "I", "J", "K", "L", "M", "N", "O", "P", "Q", "R", "S", "T", "U", "V", "W", "X", "Y", "Z">>

Lowers == <<"a", "b", "c", "d", "e", "f", "g", "h", "i", "j", "k", "l", "m", "n", "o", "p", "q", "r", "s", "t", "u", "v", "w", "x", "y", "z">>

UpperSet == { Uppers[i] : i \in DOMAIN Uppers }
LetterSet == UpperSet \cup { Lowers[i] : i \in DOMAIN Lowers }

\* the lower-case letter of each upper-case letter
LowerOf == [c \in UpperSet |-> Lowers[CHOOSE i \in DOMAIN Uppers : Uppers[i] = c]]

IsUpper(c) == c \in UpperSet
IsLetter(c) == c \in LetterSet

\* strings.ToLower
ToLower(cs) == [k \in 1..Len(cs) |-> IF IsUpper(cs[k]) THEN LowerOf[cs[k]] ELSE cs[k]]

RECURSIVE Str(_)
Str(cs) == IF cs = <<>> THEN "" ELSE Head(cs) \o Str(Tail(cs))

\* the initialism of snaker.DefaultInitialisms that the names of the model hold
Peek(r) == IF Len(r) >= 2 /\ SubSeq(r, 1, 2) = <<"I", "D">> THEN <<"I", "D">> ELSE <<>>

RECURSIVE CamelLoop(_, _, _, _, _)
\* the loop of snaker.CamelToSnake: an underscore before an upper-case letter
\* that follows a letter and before a letter that follows an initialism
CamelLoop(r, wasUpper, wasLetter, wasIsm, out) ==
    IF r = <<>> THEN out
    ELSE LET c == Head(r)
             sep == IF (wasLetter /\ IsUpper(c)) \/ (wasIsm /\ IsLetter(c)) THEN <<"_">> ELSE <<>>
             ism == Peek(r) # <<>> /\ (~wasUpper \/ wasIsm)
             next == IF ism THEN Peek(r) ELSE <<c>>
         IN  CamelLoop(SubSeq(r, Len(next) + 1, Len(r)), IsUpper(c), IsLetter(c), ism,
                       out \o sep \o next)

CamelToSnake(name) == ToLower(CamelLoop(name, FALSE, FALSE, FALSE, <<>>))

RECURSIVE SplitLoop(_, _, _, _)
SplitLoop(cs, sep, cur, out) ==
    IF cs = <<>> THEN Append(out, cur)
    ELSE IF Head(cs) = sep THEN SplitLoop(Tail(cs), sep, <<>>, Append(out, cur))
    ELSE SplitLoop(Tail(cs), sep, Append(cur, Head(cs)), out)

\* strings.Split
Split(cs, sep) == SplitLoop(cs, sep, <<>>, <<>>)

\* ------------------------------------------------------------------- short
RECURSIVE Initials(_)
\* the loop of short over the words of the name, joined
Initials(words) ==
    IF words = <<>> THEN ""
    ELSE IF Len(Head(words)) > 0 /\ Head(words) # <<"i", "d">>
         THEN Head(words)[1] \o Initials(Tail(words))
         ELSE Initials(Tail(words))

\* the value of name in short after the lookup and, on a miss, the derivation
short_name(reg, n) ==
    IF Str(n) \in DOMAIN reg THEN reg[Str(n)]
    ELSE checkName(Initials(Split(ToLower(CamelToSnake(n)), "_")))

\* short keeping, on a miss, the new entry and the entries of Init only
short_shorts_rebuild(reg, n) ==
    IF Str(n) \in DOMAIN reg THEN reg
    ELSE (Str(n) :> short_name(reg, n)) @@ InitShorts

\* short keeping the derived name as it is, without the reserved-word lookup
short_shorts_unchecked(reg, n) ==
    IF Str(n) \in DOMAIN reg THEN reg
    ELSE (Str(n) :> Initials(Split(ToLower(CamelToSnake(n)), "_"))) @@ reg

\* f.shorts after short(n)
short_shorts(reg, n) ==
    IF Str(n) \in DOMAIN reg THEN reg
    ELSE (Str(n) :> short_name(reg, n)) @@ reg

\* short without the conflict suffix
short_plain(reg, cf, n) == short_name(reg, n)

\* the value short returns
short(reg, cf, n) ==
    LET name == short_name(reg, n)
    IN  IF name \in templateReservedNames THEN name \o cf ELSE name

\* ------------------------------------------------------------------- param
knownTypes ==
    {"bool", "str", "bytes", "int", "float", "list[bool]", "list[bytes]",
     "list[float]", "list[int]", "list[string]"}

\* Funcs.custom: the flag has no default
custom == ""

\* typefn for a type name without ".", "list[" or "Optional["
typefn(t) == IF t \in knownTypes \/ custom = "" THEN t ELSE custom \o "." \o t

\* s of param before the lookup: the first word lower-cased, the rest as it is
param_cased(field) ==
    LET n == Split(CamelToSnake(field.PythonName), "_")
    IN  ToLower(n[1]) \o SubSeq(field.PythonName, Len(n[1]) + 1, Len(field.PythonName))

\* param looking the name up as it is cased
param_exact(field, addType) ==
    LET r == checkName(Str(param_cased(field)))
    IN  IF addType THEN r \o ": " \o typefn(field.Type) ELSE r

param(field, addType) ==
    LET s == param_cased(field)
        r == IF Str(ToLower(s)) \in DOMAIN pythonReservedNames
             THEN pythonReservedNames[Str(ToLower(s))]
             ELSE Str(s)
    IN  IF addType THEN r \o ": " \o typefn(field.Type) ELSE r

\* ------------------------------------------- the naming registry over runs
Conflicts == {"Val", "_"}

\* the type names short is called with: a string or Table.PythonName
TypeNames ==
    {<<"U", "s", "e", "r", "A", "c", "c", "o", "u", "n", "t">>,
     <<"u", "s", "e", "r", "A", "c", "c", "o", "u", "n", "t">>,
     <<"D", "a", "t", "a", "b", "a", "s", "e", "B", "a", "c", "k", "u", "p">>,
     <<"A", "c", "c", "o", "u", "n", "t", "S", "e", "t", "t", "i", "n", "g">>,
     <<"U", "s", "e", "r", "I", "D">>,
     <<"b", "o", "o", "l">>}

\* the statement state of a run that only derives names
IdleTable ==
    convertTable([Name |-> TableName, Manual |-> FALSE,
                  Columns |-> <<[Name |-> ColNames[1], IsPrimary |-> TRUE, IsSequence |-> TRUE]>>])

SqlIdle ==
    /\ driver = "sqlite3"
    /\ oracleType = ""
    /\ esc = "none"
    /\ schema = ""
    /\ table = IdleTable
    /\ val = TableArg(IdleTable)
    /\ typ = ""
    /\ lines = <<>>
    /\ binds = <<>>
    /\ pc = "start"

\* after Init of the template: the shorts map exists, no context yet
ShortInit ==
    /\ SqlIdle
    /\ shorts = InitShorts
    /\ conflict = ""
    /\ run = 0
    /\ results = {}
    /\ last = NoCall
    /\ prev = NoCall
    /\ GenIdle
    /\ ObjIdle

\* NewContext handing every context a map of its own
NewContextFresh ==
    /\ run < MaxRuns
    /\ run' = run + 1
    /\ shorts' = InitShorts
    /\ conflict' \in Conflicts
    /\ results' = {}
    /\ last' = [NoCall EXCEPT !.op = "NewContext"]
    /\ UNCHANGED <<sqlvars, genvars, objvars, prev>>

\* NewContext followed by NewFuncs: the context is given the map Init made
NewContext ==
    /\ run < MaxRuns
    /\ run' = run + 1
    /\ shorts' = shorts
    /\ conflict' \in Conflicts
    /\ results' = {}
    /\ last' = [NoCall EXCEPT !.op = "NewContext"]
    /\ UNCHANGED <<sqlvars, genvars, objvars, prev>>

\* {{ short n }}
Short(n) ==
    /\ run > 0
    /\ shorts' = short_shorts(shorts, n)
    /\ last' = [op |-> "short", arg |-> Str(n), cased |-> Str(n),
                res |-> short(shorts, conflict, n),
                miss |-> Str(n) \notin DOMAIN shorts, addType |-> FALSE]
    /\ results' = results \cup {<<Str(n), short(shorts, conflict, n)>>}
    /\ UNCHANGED <<sqlvars, genvars, objvars, conflict, run, prev>>

ShortCall == \E n \in TypeNames : Short(n)

ShortNext ==
    \/ NewContext
    \/ ShortCall

SpecShort == ShortInit /\ [][ShortNext]_vars

\* type names whose short name is what is left after the word id, a name the
\* templates use, a reserved word of Python, or an entry Init made
PlainNames ==
    {<<"I", "D">>,
     <<"I", "d">>,
     <<"U", "s", "e", "r", "I", "D">>,
     <<"D", "a", "t", "a", "b", "a", "s", "e", "B", "a", "c", "k", "u", "p">>,
     <<"A", "c", "c", "o", "u", "n", "t", "S", "e", "t", "t", "i", "n", "g">>,
     <<"b", "o", "o", "l">>}

ShortPlainCall == \E n \in PlainNames : Short(n)

ShortPlainNext ==
    \/ NewContext
    \/ ShortPlainCall

SpecShortPlain == ShortInit /\ [][ShortPlainNext]_vars

\* --------------------------------------------------- reserved-name lookups
\* the field names param is called with
Identifiers ==
    {<<"c", "l", "a", "s", "s">>,
     <<"C", "l", "a", "s", "s">>,
     <<"n", "o", "n", "L", "o", "c", "a", "l">>,
     <<"n", "o", "n", "l", "o", "c", "a", "l">>,
     <<"b", "y", "t", "e", "A", "r", "r", "a", "y">>,
     <<"t", "y", "p", "e">>,
     <<"t", "u", "p", "l", "e">>,
     <<"u", "s", "e", "r", "N", "a", "m", "e">>,
     <<"N", "o", "n", "e">>,
     <<"n", "o", "n", "e">>,
     <<"i", "d">>,
     <<"I", "D">>,
     <<"d", "e", "l">>,
     <<"a", "s", "y", "n", "c">>,
     <<"a", "w", "a", "i", "t">>}

ParamFields == { [PythonName |-> i, Type |-> "str"] : i \in Identifiers }

\* the names checkName is called with: every key of the map and the field names
CheckedNames == DOMAIN pythonReservedNames \cup { Str(i) : i \in Identifiers }

NamesInit ==
    /\ SqlIdle
    /\ RegIdle
    /\ GenIdle
    /\ ObjIdle

CheckName(n) ==
    /\ prev' = last
    /\ last' = [op |-> "checkName", arg |-> n, cased |-> n, res |-> checkName(n),
                miss |-> FALSE, addType |-> FALSE]
    /\ UNCHANGED <<sqlvars, genvars, objvars, shorts, conflict, run, results>>

Param(field, addType) ==
    /\ prev' = last
    /\ last' = [op |-> "param", arg |-> Str(field.PythonName),
                cased |-> Str(param_cased(field)), res |-> param(field, addType),
                miss |-> FALSE, addType |-> addType]
    /\ UNCHANGED <<sqlvars, genvars, objvars, shorts, conflict, run, results>>

CheckNameCall == \E n \in CheckedNames : CheckName(n)

ParamCall == \E f \in ParamFields, addType \in BOOLEAN : Param(f, addType)

NamesNext ==
    \/ CheckNameCall
    \/ ParamCall

SpecNames == NamesInit /\ [][NamesNext]_vars

\* ------------------------------------------------- Process: emitting a set
MaxGenCols == 2

\* the drivers a context can name: the five pythonType lists and one it does not
GenDrivers == Drivers \cup {"db2"}

ext == ".py"

\* inflector.Singularize on the names of the model
singularize(s) ==
    CASE s = "users" -> "user"
      [] s = "orders" -> "order"
      [] s = "reports" -> "report"
      [] OTHER -> s

\* snaker.ForceCamelIdentifier on the names of the model
fileExport(s) ==
    CASE s = "user" -> "User"
      [] s = "order" -> "Order"
      [] s = "report" -> "Report"
      [] s = "status" -> "Status"
      [] s = "get_user" -> "GetUser"
      [] OTHER -> s

\* strings.ToLower on the names of the model
lower(s) ==
    CASE s = "User" -> "user"
      [] s = "Order" -> "order"
      [] s = "Report" -> "report"
      [] s = "Status" -> "status"
      [] s = "GetUser" -> "getuser"
      [] s = "userName" -> "username"
      [] OTHER -> s

\* snaker.CamelToSnake on the names of the model
snake(s) ==
    CASE s = "User" -> "user"
      [] s = "Order" -> "order"
      [] s = "userName" -> "user_name"
      [] OTHER -> s

\* a column type loader.Sqlite3PythonType maps, and one it answers with an error
IntType == [Type |-> "integer", Unmapped |-> FALSE]
GeomType == [Type |-> "geometry", Unmapped |-> TRUE]

pythonType(drv, t) ==
    CASE drv \in {"mysql", "oracle", "postgres", "sqlserver"} ->
            [typ |-> "", zero |-> "", err |-> drv \o " driver not supported for python"]
      [] drv = "sqlite3" ->
            IF t.Unmapped
            THEN [typ |-> "", zero |-> "", err |-> "unknown type " \o t.Type]
            ELSE [typ |-> "int", zero |-> "0", err |-> ""]
      [] OTHER -> [typ |-> "", zero |-> "", err |-> "unknown driver " \o drv]

RECURSIVE FieldsErr(_, _)
\* the error of the first convertField call that fails in a loop over fs, "" if none
FieldsErr(drv, fs) ==
    IF fs = <<>> THEN ""
    ELSE IF pythonType(drv, Head(fs).Type).err # ""
         THEN pythonType(drv, Head(fs).Type).err
         ELSE FieldsErr(drv, Tail(fs))

convertTable_err(drv, t) == FieldsErr(drv, t.Columns)

convertIndex_err(drv, i) == FieldsErr(drv, i.Fields)

convertFKey_err(drv, fk) == FieldsErr(drv, fk.Fields \o fk.RefFields)

convertProc_err(drv, p) == FieldsErr(drv, p.Params \o p.Returns)

convertFKey(t, fk) ==
    [SQLName |-> fk.Name,
     Table |-> t,
     Fields |-> [k \in 1..Len(fk.Fields) |-> convertField(fk.Fields[k])],
     RefTable |-> pascal(singularize(fk.RefTable)),
     RefFields |-> [k \in 1..Len(fk.RefFields) |-> convertField(fk.RefFields[k])]]

convertEnum(e) == [PythonName |-> snake(e.Name), SQLName |-> e.Name]

\* xo.Template
Tpl(partial, dest, data) == [Partial |-> partial, Dest |-> dest, Src |-> "", Data |-> data]

\* Table.PythonName of a xo.Table
TablePythonName(t) == pascal(singularize(t.Name))

\* what a loop of emitSchema or Process hands on: the templates emitted and the error
Ok(out) == [out |-> out, err |-> ""]
Failed(out, e) == [out |-> out, err |-> e]

RECURSIVE emitIndexes(_, _, _, _)
\* the "emit indexes" loop of emitSchema
emitIndexes(drv, t, is, out) ==
    IF is = <<>> THEN Ok(out)
    ELSE IF convertIndex_err(drv, Head(is)) # ""
         THEN Failed(out, convertIndex_err(drv, Head(is)))
         ELSE emitIndexes(drv, t, Tail(is),
                  Append(out, Tpl("index", lower(TablePythonName(t)) \o ext,
                                  convertIndex(convertTable(t), Head(is)))))

RECURSIVE emitFKeys(_, _, _, _)
\* the "emit fkeys" loop of emitSchema
emitFKeys(drv, t, fks, out) ==
    IF fks = <<>> THEN Ok(out)
    ELSE IF convertFKey_err(drv, Head(fks)) # ""
         THEN Failed(out, convertFKey_err(drv, Head(fks)))
         ELSE emitFKeys(drv, t, Tail(fks),
                  Append(out, Tpl("foreignkey", lower(TablePythonName(t)) \o ext,
                                  convertFKey(convertTable(t), Head(fks)))))

\* the "emit tables" loop handing on after the typedef, whatever the indexes did
RECURSIVE emitTables_goon(_, _, _)
emitTables_goon(drv, ts, out) ==
    IF ts = <<>> THEN Ok(out)
    ELSE LET t == Head(ts)
             typedef == Tpl("typedef", lower(TablePythonName(t)) \o ext, convertTable(t))
             is == emitIndexes(drv, t, t.Indexes, Append(out, typedef))
             fks == emitFKeys(drv, t, t.ForeignKeys, is.out)
             rest == emitTables_goon(drv, Tail(ts), fks.out)
         IN  IF convertTable_err(drv, t) # "" THEN Failed(out, convertTable_err(drv, t))
             ELSE IF is.err # "" THEN Failed(rest.out, is.err)
             ELSE IF fks.err # "" THEN Failed(rest.out, fks.err)
             ELSE rest

RECURSIVE emitTables(_, _, _)
\* the "emit tables" loop of emitSchema over append(schema.Tables, schema.Views...)
emitTables(drv, ts, out) ==
    IF ts = <<>> THEN Ok(out)
    ELSE LET t == Head(ts)
             typedef == Tpl("typedef", lower(TablePythonName(t)) \o ext, convertTable(t))
             is == emitIndexes(drv, t, t.Indexes, Append(out, typedef))
             fks == emitFKeys(drv, t, t.ForeignKeys, is.out)
         IN  IF convertTable_err(drv, t) # "" THEN Failed(out, convertTable_err(drv, t))
             ELSE IF is.err # "" THEN is
             ELSE IF fks.err # "" THEN fks
             ELSE emitTables(drv, Tail(ts), fks.out)

RECURSIVE ProcsErr(_, _)
\* the "build procs" loop of emitSchema: the first convertProc error
ProcsErr(drv, ps) ==
    IF ps = <<>> THEN ""
    ELSE IF convertProc_err(drv, Head(ps)) # ""
         THEN convertProc_err(drv, Head(ps))
         ELSE ProcsErr(drv, Tail(ps))

RECURSIVE procOrder(_, _)
\* the proc names in the order convertProc first meets them
procOrder(ps, order) ==
    IF ps = <<>> THEN order
    ELSE procOrder(Tail(ps),
             IF \E k \in DOMAIN order : order[k] = snake(Head(ps).Name)
             THEN order ELSE Append(order, snake(Head(ps).Name)))

\* overloadMap[name] after the "build procs" loop
overloads(ps, name) ==
    SelectSeq([k \in DOMAIN ps |-> convertProc(ps[k])], LAMBDA q : snake(q.SQLName) = name)

\* the "emit procs" loop of emitSchema
emitProcs(ps) ==
    LET order == procOrder(ps, <<>>)
    IN  [k \in DOMAIN order |->
            LET procs == overloads(ps, order[k])
                prefix == IF procs[1].Type = "function" THEN "sf_" ELSE "sp_"
            IN  Tpl("procs", prefix \o lower(order[k]) \o ext,
                    [Procs |-> procs, Overloaded |-> Len(procs) > 1])]

\* the "emit enums" loop of emitSchema
emitEnums(es) ==
    [k \in DOMAIN es |-> Tpl("enum", lower(convertEnum(es[k]).PythonName) \o ext, convertEnum(es[k]))]

emitSchema(drv, sch, out) ==
    LET enums == out \o emitEnums(sch.Enums)
    IN  IF ProcsErr(drv, sch.Procs) # "" THEN Failed(enums, ProcsErr(drv, sch.Procs))
        ELSE emitTables(drv, sch.Tables \o sch.Views, enums \o emitProcs(sch.Procs))

\* buildQueryType: its error
buildQueryType_err(drv, q) == FieldsErr(drv, q.Fields)

\* buildQueryType: Table.PythonName is the query's Type
QueryPythonName(q) == IF q.Exec THEN "" ELSE q.Type

emitQuery(drv, app, q, out) ==
    LET typedef == IF ~q.Exec /\ ~q.Flat /\ ~app
                   THEN << Tpl("typedef", lower(QueryPythonName(q)) \o ext, q.Type) >>
                   ELSE << >>
        query == Tpl("query", lower(QueryPythonName(q)) \o ext,
                     [Name |-> q.Name, Exec |-> q.Exec, Flat |-> q.Flat])
    IN  IF ~q.Exec /\ buildQueryType_err(drv, q) # ""
        THEN Failed(out, buildQueryType_err(drv, q))
        ELSE Ok(out \o typedef \o << query >>)

RECURSIVE ProcessQueries(_, _, _, _)
ProcessQueries(drv, app, qs, out) ==
    IF qs = <<>> THEN Ok(out)
    ELSE LET r == emitQuery(drv, app, Head(qs), out)
         IN  IF r.err # "" THEN r ELSE ProcessQueries(drv, app, Tail(qs), r.out)

RECURSIVE ProcessSchemas(_, _, _)
ProcessSchemas(drv, ss, out) ==
    IF ss = <<>> THEN Ok(out)
    ELSE LET r == emitSchema(drv, Head(ss), out)
         IN  IF r.err # "" THEN r ELSE ProcessSchemas(drv, Tail(ss), r.out)

\* Init.Process
ProcessSet(drv, app, md, st, out) ==
    IF md = "query" THEN ProcessQueries(drv, app, st.Queries, out)
    ELSE ProcessSchemas(drv, st.Schemas, out)

\* the column lists of the tables Process is given: 0..MaxGenCols columns
GenColumns ==
    UNION { { [i \in 1..n |-> [Name |-> ColNames[i], IsPrimary |-> p[i],
                               IsSequence |-> FALSE, Type |-> ty[i]]] :
                p \in [1..n -> BOOLEAN], ty \in [1..n -> {IntType, GeomType}] } :
            n \in 0..MaxGenCols }

GenField(nm, ty) == [Name |-> nm, IsPrimary |-> FALSE, IsSequence |-> FALSE, Type |-> ty]

GenIndexes ==
    { << >> } \cup { << [Name |-> "users_idx", Fields |-> << GenField("email", ty) >>] >> :
                        ty \in {IntType, GeomType} }

GenFKeys ==
    { << >> } \cup
    { << [Name |-> "users_fk", RefTable |-> "orders",
          Fields |-> << GenField("name", a) >>, RefFields |-> << GenField("id", b) >>] >> :
        a, b \in {IntType, GeomType} }

GenTables ==
    { [Name |-> "users", Manual |-> FALSE, Columns |-> c, Indexes |-> i, ForeignKeys |-> f] :
        c \in GenColumns, i \in GenIndexes, f \in GenFKeys }

\* the table or view that follows the first table
PlainTable(nm) ==
    [Name |-> nm, Manual |-> FALSE, Indexes |-> << >>, ForeignKeys |-> << >>,
     Columns |-> << [Name |-> "id", IsPrimary |-> TRUE, IsSequence |-> TRUE, Type |-> IntType] >>]

GenProcs ==
    { << >> } \cup
    { << [Name |-> ProcName, Type |-> "procedure", Params |-> << GenField("a", ty) >>,
          Returns |-> << >>] >> : ty \in {IntType, GeomType} }

GenEnums == { << >>, << [Name |-> "status"] >> }

GenSchemas ==
    { [Enums |-> e, Procs |-> ps, Tables |-> ts, Views |-> vs] :
        e \in GenEnums, ps \in GenProcs,
        ts \in { << >> } \cup { << t >> : t \in GenTables }
                \cup { << t, PlainTable("orders") >> : t \in GenTables },
        vs \in { << >>, << PlainTable("reports") >> } }

\* the schema that follows the first one
LastSchema ==
    [Enums |-> << [Name |-> "status"] >>, Procs |-> << >>,
     Tables |-> << PlainTable("orders") >>, Views |-> << >>]

GenQuery ==
    { [Type |-> "User", Name |-> "", Exec |-> x, Flat |-> fl, Fields |-> fs] :
        x \in BOOLEAN, fl \in BOOLEAN,
        fs \in { << >>, << GenField("id", IntType) >>, << GenField("id", GeomType) >> } }

GenQueries ==
    { << >> } \cup { << q >> : q \in GenQuery } \cup { << q, r >> : q \in GenQuery, r \in GenQuery }

\* the set, mode and context of a run; Pre is not modelled here, NewFuncs has run
ProcessInit ==
    /\ driver \in GenDrivers
    /\ oracleType = ""
    /\ esc = "none"
    /\ schema = ""
    /\ table = IdleTable
    /\ val = TableArg(IdleTable)
    /\ typ = ""
    /\ lines = <<>>
    /\ binds = <<>>
    /\ pc = "start"
    /\ RegIdle
    /\ ObjIdle
    /\ \/ /\ mode = "schema"
          /\ set \in { [Schemas |-> << sch >> \o more, Queries |-> << >>] :
                        sch \in GenSchemas, more \in { << >>, << LastSchema >> } }
          /\ ctx = [single |-> "", append |-> FALSE, notFirst |-> FALSE, custom |-> <<>>]
       \/ /\ mode = "query"
          /\ set \in { [Schemas |-> << >>, Queries |-> qs] : qs \in GenQueries }
          /\ ctx \in { [single |-> "", append |-> a, notFirst |-> FALSE, custom |-> <<>>] : a \in BOOLEAN }
    /\ files = <<>>
    /\ emitted = <<>>
    /\ err = ""
    /\ first = TRUE
    /\ firsts = <<>>
    /\ gpc = "funcs"

\* Init.Process called with the mode and the set
Process(md) ==
    /\ gpc = "funcs"
    /\ mode = md
    /\ emitted' = ProcessSet(driver, ctx.append, mode, set, emitted).out
    /\ err' = ProcessSet(driver, ctx.append, mode, set, emitted).err
    /\ gpc' = "done"
    /\ UNCHANGED <<sqlvars, regvars, objvars, ctx, mode, set, files, first, firsts>>

Process_schema == Process("schema")
Process_query == Process("query")

ProcessNext ==
    \/ Process_schema
    \/ Process_query

SpecProcess == ProcessInit /\ [][ProcessNext]_vars

\* ------------------------------------------------ type names and wrappers
MaxDepth == 2

HasPrefix(s, p) == Len(s) >= Len(p) /\ SubSeq(s, 1, Len(p)) = p

\* strings.Index for a one-character separator, 0 when it is absent
IndexOf(s, c) ==
    IF \E i \in 1..Len(s) : s[i] = c
    THEN CHOOSE i \in 1..Len(s) : s[i] = c /\ \A j \in 1..(i - 1) : s[j] # c
    ELSE 0

ListPrefix == <<"l", "i", "s", "t", "[">>

OptionalPrefix == <<"O", "p", "t", "i", "o", "n", "a", "l", "[">>

RECURSIVE typefn_loop_nosuffix(_, _, _)
\* the loop of typefn leaving suffix as it is
typefn_loop_nosuffix(ty, prefix, suffix) ==
    IF HasPrefix(ty, ListPrefix) \/ HasPrefix(ty, OptionalPrefix)
    THEN LET k == IndexOf(ty, "[")
             rest == SubSeq(ty, k + 1, Len(ty))
         IN  typefn_loop_nosuffix(SubSeq(rest, 1, Len(rest) - 1),
                                  prefix \o SubSeq(ty, 1, k - 1) \o <<"[">>, suffix)
    ELSE [typ |-> ty, prefix |-> prefix, suffix |-> suffix]

RECURSIVE typefn_loop(_, _, _)
\* the loop of typefn: parts := strings.SplitN(ty, "[", 2), the last byte of
\* parts[1] dropped, the wrapper moved to prefix and a "]" to suffix
typefn_loop(ty, prefix, suffix) ==
    IF HasPrefix(ty, ListPrefix) \/ HasPrefix(ty, OptionalPrefix)
    THEN LET k == IndexOf(ty, "[")
             rest == SubSeq(ty, k + 1, Len(ty))
         IN  typefn_loop(SubSeq(rest, 1, Len(rest) - 1),
                         prefix \o SubSeq(ty, 1, k - 1) \o <<"[">>, suffix \o <<"]">>)
    ELSE [typ |-> ty, prefix |-> prefix, suffix |-> suffix]

\* typefn for any type name, with Funcs.custom as cust
typefn_any(cust, ty) ==
    IF IndexOf(ty, ".") # 0 THEN ty
    ELSE LET r == typefn_loop(ty, <<>>, <<>>)
         IN  IF Str(r.typ) \in knownTypes \/ cust = <<>>
             THEN r.prefix \o r.typ \o r.suffix
             ELSE r.prefix \o cust \o <<".">> \o r.typ \o r.suffix

\* the expression convertTypes builds for one pair of fields
convertTypes_expr(recv, field, refField) ==
    LET expr == recv \o "." \o field.PythonName
        opt == HasPrefix(field.Type, OptionalPrefix)
        ty == IF opt THEN SubSeq(field.Type, 10, Len(field.Type) - 1) ELSE field.Type
        expr2 == IF opt THEN expr \o "." \o Str(ty) ELSE expr
    IN  IF field.Type = refField.Type THEN expr
        ELSE IF ToLower(refField.Type) # ty
             THEN Str(refField.Type) \o "(" \o expr2 \o ")"
             ELSE expr2

RECURSIVE JoinStr(_, _)
\* strings.Join
JoinStr(p, sep) ==
    IF p = <<>> THEN ""
    ELSE IF Len(p) = 1 THEN p[1]
    ELSE p[1] \o sep \o JoinStr(Tail(p), sep)

convertTypes(reg, cf, fkey) ==
    JoinStr([i \in 1..Len(fkey.Fields) |->
                convertTypes_expr(short(reg, cf, fkey.Table), fkey.Fields[i], fkey.RefFields[i])],
            ", ")

\* the type names without a wrapper: two known types, a custom one, a qualified one
BaseTypes ==
    {<<"i", "n", "t">>, <<"s", "t", "r">>, <<"P", "o", "i", "n", "t">>,
     <<"p", "k", "g", ".", "P", "o", "i", "n", "t">>}

RECURSIVE Wrapped(_)
\* the type names with at most n list[ ] and Optional[ ] wrappers
Wrapped(n) ==
    IF n = 0 THEN BaseTypes
    ELSE Wrapped(n - 1)
         \cup { ListPrefix \o t \o <<"]">> : t \in Wrapped(n - 1) }
         \cup { OptionalPrefix \o t \o <<"]">> : t \in Wrapped(n - 1) }

\* the values of the custom flag
Customs == {<<>>, <<"m", "o", "d", "e", "l", "s">>}

\* the types of the referenced fields
RefTypes == {<<"i", "n", "t">>, <<"I", "n", "t">>, <<"s", "t", "r">>}

ForeignKeyArg(x) == [t |-> "ForeignKey", v |-> x]

\* a foreign key from users(user_id, id) to its referenced fields
TypeFKeys ==
    { [Table |-> <<"U", "s", "e", "r">>,
       Fields |-> << [PythonName |-> "user_id", Type |-> ft],
                     [PythonName |-> "id", Type |-> <<"i", "n", "t">>] >>,
       RefFields |-> << [PythonName |-> "id", Type |-> rt],
                        [PythonName |-> "id", Type |-> <<"i", "n", "t">>] >>] :
        ft \in Wrapped(MaxDepth), rt \in RefTypes }

\* a type name or a foreign key handed to the template, nothing called yet
TypesInit ==
    /\ driver = "sqlite3"
    /\ oracleType = ""
    /\ esc = "none"
    /\ schema = ""
    /\ table = IdleTable
    /\ \/ val \in { StringArg(t) : t \in Wrapped(MaxDepth) }
       \/ val \in { ForeignKeyArg(k) : k \in TypeFKeys }
    /\ typ = ""
    /\ lines = <<>>
    /\ binds = <<>>
    /\ pc = "start"
    /\ RegIdle
    /\ ObjIdle
    /\ ctx \in { [single |-> "", append |-> FALSE, notFirst |-> FALSE, custom |-> c] :
                    c \in Customs }
    /\ mode = "schema"
    /\ set = NoSet
    /\ files = <<>>
    /\ emitted = <<>>
    /\ err = ""
    /\ first = TRUE
    /\ firsts = <<>>
    /\ gpc = "funcs"

\* {{ type .Type }}
TypeCall ==
    /\ last = NoCall
    /\ val.t = "string"
    /\ last' = [op |-> "type", arg |-> Str(val.v), cased |-> "",
                res |-> Str(typefn_any(ctx.custom, val.v)), miss |-> FALSE, addType |-> FALSE]
    /\ UNCHANGED <<sqlvars, genvars, objvars, shorts, conflict, run, results, prev>>

\* {{ foreign_key $k }}: convertTypes, which calls short on the table
ConvertTypesCall ==
    /\ last = NoCall
    /\ val.t = "ForeignKey"
    /\ shorts' = short_shorts(shorts, val.v.Table)
    /\ last' = [op |-> "convertTypes", arg |-> Str(val.v.Fields[1].Type), cased |-> "",
                res |-> convertTypes(shorts, conflict, val.v), miss |-> FALSE, addType |-> FALSE]
    /\ UNCHANGED <<sqlvars, genvars, objvars, conflict, run, results, prev>>

TypesNext ==
    \/ TypeCall
    \/ ConvertTypesCall

SpecTypes == TypesInit /\ [][TypesNext]_vars

\* ----------------------------------------------------- Pre and fileNames
MaxCalls == 3

ErrNoSingle == "in query exec mode, the --single or -S must be provided"

\* addFile: strings.ToLower(filename) + ext, filename being a lower-case
\* prefix ("", "sp_" or "sf_") and a name
addFile(fs, prefix, name) == fs \cup {prefix \o lower(name) \o ext}

RECURSIVE addNames(_, _)
\* addFile(fileExport(singularize(x.Name))) over a list of enums, tables or views
addNames(fs, xs) ==
    IF xs = <<>> THEN fs
    ELSE addNames(addFile(fs, "", fileExport(singularize(Head(xs).Name))), Tail(xs))

RECURSIVE addProcs(_, _)
addProcs(fs, ps) ==
    IF ps = <<>> THEN fs
    ELSE addProcs(addFile(fs, IF Head(ps).Type = "function" THEN "sf_" ELSE "sp_",
                          fileExport(Head(ps).Name)),
                  Tail(ps))

RECURSIVE schemaFiles(_, _)
\* case "schema" of fileNames
schemaFiles(fs, ss) ==
    IF ss = <<>> THEN fs
    ELSE LET sch == Head(ss)
         IN  schemaFiles(addNames(addNames(addProcs(addNames(fs, sch.Enums), sch.Procs),
                                           sch.Tables), sch.Views),
                         Tail(ss))

\* case "query" of fileNames going on after an exec query
RECURSIVE queryFiles_goon(_, _)
queryFiles_goon(fs, qs) ==
    IF qs = <<>> THEN [files |-> fs, err |-> ""]
    ELSE queryFiles_goon(addFile(fs, "", Head(qs).Type), Tail(qs))

RECURSIVE queryFiles(_, _)
\* case "query" of fileNames
queryFiles(fs, qs) ==
    IF qs = <<>> THEN [files |-> fs, err |-> ""]
    ELSE IF Head(qs).Exec THEN [files |-> {}, err |-> ErrNoSingle]
    ELSE queryFiles(addFile(fs, "", Head(qs).Type), Tail(qs))

\* fileNames: the keys of the map it returns, and its error
fileNames(single, md, st) ==
    IF single # "" THEN [files |-> {single}, err |-> ""]
    ELSE IF md = "schema" THEN [files |-> schemaFiles({}, st.Schemas), err |-> ""]
    ELSE queryFiles({}, st.Queries)

RECURSIVE Perms(_)
\* the orders in which a range over a Go map with the keys S can visit them
Perms(S) ==
    IF S = {} THEN { << >> }
    ELSE UNION { { << x >> \o q : q \in Perms(S \ {x}) } : x \in S }

\* the header template of a file that does not exist yet
Header(filename) == [Partial |-> "header", Dest |-> filename, Src |-> "", Data |-> ""]

\* the header template of a file that exists: its content as it is
ExistingHeader(filename, data) ==
    [Partial |-> "header", Dest |-> filename, Src |-> "{{.Data}}", Data |-> data]

\* what the loops of Pre hand on: the templates emitted, the error, the map files
PreState(out, e, fs) == [out |-> out, err |-> e, files |-> fs]

\* the append loop of Pre leaving the map files as it is
RECURSIVE appendLoop_nodelete(_, _, _, _)
appendLoop_nodelete(fsys, ord, out, fs) ==
    IF ord = <<>> THEN PreState(out, "", fs)
    ELSE LET filename == Head(ord)
         IN  IF filename \notin DOMAIN fsys
             THEN appendLoop_nodelete(fsys, Tail(ord), out, fs)
             ELSE IF ~fsys[filename].readable
             THEN PreState(out, "read " \o filename, fs)
             ELSE appendLoop_nodelete(fsys, Tail(ord),
                      Append(out, ExistingHeader(filename, fsys[filename].data)), fs)

RECURSIVE appendLoop(_, _, _, _)
\* the loop of Pre under Append(ctx), visiting the keys of files in the order ord
appendLoop(fsys, ord, out, fs) ==
    IF ord = <<>> THEN PreState(out, "", fs)
    ELSE LET filename == Head(ord)
         IN  IF filename \notin DOMAIN fsys
             THEN appendLoop(fsys, Tail(ord), out, fs)
             ELSE IF ~fsys[filename].readable
             THEN PreState(out, "read " \o filename, fs)
             ELSE appendLoop(fsys, Tail(ord),
                      Append(out, ExistingHeader(filename, fsys[filename].data)),
                      fs \ {filename})

\* Pre after fileNames: the db template and the append loop, for every order
\* the range over files can take
PreAppend(c, fsys, fs, out) ==
    LET pkgfile == ~c.notFirst /\ ~c.append
        out1 == IF pkgfile THEN Append(out, Tpl("db", "db.py", "")) ELSE out
        fs1 == IF pkgfile THEN fs \cup {"db.py"} ELSE fs
    IN  IF c.append
        THEN { appendLoop(fsys, ord, out1, fs1) : ord \in Perms(fs1) }
        ELSE { PreState(out1, "", fs1) }

\* the last loop of Pre: a header for every file left in files
PreHeaders(a) ==
    IF a.err # "" THEN { a }
    ELSE { PreState(a.out \o [k \in DOMAIN ord |-> Header(ord[k])], "", a.files) :
              ord \in Perms(a.files) }

\* Init.Pre: the results it can have
PreResults(c, md, st, fsys, out) ==
    LET fn == fileNames(c.single, md, st)
    IN  IF fn.err # "" THEN { PreState(out, fn.err, {}) }
        ELSE UNION { PreHeaders(a) : a \in PreAppend(c, fsys, fn.files, out) }

\* the schemas Pre is given: only the names and the proc types matter to it
PreSchemas ==
    { [Enums |-> e, Procs |-> ps, Tables |-> ts, Views |-> vs] :
        e \in GenEnums,
        ps \in { << >> } \cup { << [Name |-> ProcName, Type |-> ty, Params |-> << >>,
                                    Returns |-> << >>] >> : ty \in ProcTypes },
        ts \in { << >>, << PlainTable("users") >>,
                 << PlainTable("users"), PlainTable("orders") >> },
        vs \in { << >>, << PlainTable("reports") >> } }

PreQuery ==
    { [Type |-> ty, Name |-> "", Exec |-> x, Flat |-> FALSE, Fields |-> << >>] :
        ty \in {"User", "Order"}, x \in BOOLEAN }

PreQueries ==
    { << >> } \cup { << q >> : q \in PreQuery } \cup { << q, r >> : q \in PreQuery, r \in PreQuery }

\* the single flag: unset, or the one output file
Singles == {"", "out.py"}

\* a file of the output directory and whether reading it succeeds
OutFile(name, ok) == [data |-> "# old " \o name, readable |-> ok]

\* the output directories Pre is given under append: user.py, order.py and
\* out.py exist or not, and user.py may fail to be read
OutDirs ==
    { [n \in ns |-> OutFile(n, n # "user.py" \/ ok)] :
        ns \in SUBSET {"user.py", "order.py", "out.py"}, ok \in BOOLEAN }

PreInit ==
    /\ SqlIdle
    /\ RegIdle
    /\ ObjIdle
    /\ ctx \in { [single |-> sg, append |-> a, notFirst |-> nf, custom |-> <<>>] :
                    sg \in Singles, a \in BOOLEAN, nf \in BOOLEAN }
    /\ \/ /\ mode = "schema"
          /\ set \in { [Schemas |-> << sch >>, Queries |-> << >>] : sch \in PreSchemas }
       \/ /\ mode = "query"
          /\ set \in { [Schemas |-> << >>, Queries |-> qs] : qs \in PreQueries }
    /\ files \in (IF ctx.append THEN OutDirs ELSE { << >> })
    /\ emitted = <<>>
    /\ err = ""
    /\ first = FALSE
    /\ firsts = <<>>
    /\ gpc = "init"

\* Init.Pre; last keeps what its call of fileNames returned
Pre ==
    /\ gpc = "init"
    /\ \E r \in PreResults(ctx, mode, set, files, emitted) :
          /\ emitted' = r.out
          /\ err' = r.err
    /\ last' = [op |-> "fileNames", arg |-> mode, cased |-> "",
                res |-> fileNames(ctx.single, mode, set).files, miss |-> FALSE,
                addType |-> FALSE, err |-> fileNames(ctx.single, mode, set).err]
    /\ gpc' = "pre"
    /\ UNCHANGED <<sqlvars, objvars, shorts, conflict, run, results, prev>>
    /\ UNCHANGED <<ctx, mode, set, files, first, firsts>>

\* NewFuncs of a context that leaves first unset whatever the flag
NewFuncs_unset ==
    /\ gpc = "pre"
    /\ err = ""
    /\ first' = FALSE
    /\ gpc' = "funcs"
    /\ UNCHANGED <<sqlvars, regvars, objvars, ctx, mode, set, files, emitted, err, firsts>>

\* NewFuncs: first := !NotFirst(ctx)
NewFuncs ==
    /\ gpc = "pre"
    /\ err = ""
    /\ first' = ~ctx.notFirst
    /\ gpc' = "funcs"
    /\ UNCHANGED <<sqlvars, regvars, objvars, ctx, mode, set, files, emitted, err, firsts>>

\* firstfn returning f.first without clearing it
firstfn_keep ==
    /\ gpc = "funcs"
    /\ Len(firsts) < MaxCalls
    /\ firsts' = Append(firsts, first)
    /\ first' = first
    /\ UNCHANGED <<sqlvars, regvars, objvars, ctx, mode, set, files, emitted, err, gpc>>

\* {{ first }}
firstfn ==
    /\ gpc = "funcs"
    /\ Len(firsts) < MaxCalls
    /\ firsts' = Append(firsts, first)
    /\ first' = FALSE
    /\ UNCHANGED <<sqlvars, regvars, objvars, ctx, mode, set, files, emitted, err, gpc>>

PreNext ==
    \/ Pre
    \/ NewFuncs
    \/ firstfn

SpecPre == PreInit /\ [][PreNext]_vars

\* ------------------------------------- the class the typedef template renders
\* what a method call leaves: the two flags, the statements it handed to
\* cursor.execute, and the exception it raised ("" when it returned)
Outcome(ex, dl, stmts, raised) ==
    [exists |-> ex, deleted |-> dl, stmts |-> stmts, raised |-> raised]

\* __init__ sets _exists and _deleted only under {{ if $t.PrimaryKeys }}
HasFlags(t) == Len(t.PrimaryKeys) > 0

\* the update method is rendered unless every field is a primary key
HasUpdate(t) == Len(t.Fields) # Len(t.PrimaryKeys)

\* reading self._exists or self._deleted of an object that has neither
NoFlags(o) == Outcome(o.exists, o.deleted, <<>>, "AttributeError")

\* cursor.execute: ok says whether it returns; what it raises is the driver's
execute(o, stmt, ok, ex, dl) ==
    IF ok THEN Outcome(ex, dl, <<stmt>>, "")
    ELSE Outcome(o.exists, o.deleted, <<stmt>>, "Error")

insert(t, o, ok) ==
    IF ~HasFlags(t) THEN NoFlags(o)
    ELSE IF o.exists THEN Outcome(o.exists, o.deleted, <<>>, "InsertFailedError")
    ELSE IF o.deleted THEN Outcome(o.exists, o.deleted, <<>>, "InsertFailedError")
    ELSE execute(o, IF t.Manual THEN "insert_manual" ELSE "insert", ok, TRUE, o.deleted)

update(t, o, ok) ==
    IF ~HasFlags(t) THEN NoFlags(o)
    ELSE IF ~o.exists THEN Outcome(o.exists, o.deleted, <<>>, "UpdateFailedError")
    ELSE IF o.deleted THEN Outcome(o.exists, o.deleted, <<>>, "UpdateFailedError")
    ELSE execute(o, "update", ok, o.exists, o.deleted)

\* save of a class in which self.update is always there
save_always(t, o, ok) ==
    IF ~HasFlags(t) THEN NoFlags(o)
    ELSE IF o.exists THEN update(t, o, ok)
    ELSE insert(t, o, ok)

\* save: self.update(cursor) is an AttributeError when update was not rendered
save(t, o, ok) ==
    IF ~HasFlags(t) THEN NoFlags(o)
    ELSE IF o.exists
         THEN IF HasUpdate(t) THEN update(t, o, ok)
              ELSE Outcome(o.exists, o.deleted, <<>>, "AttributeError")
    ELSE insert(t, o, ok)

\* upsert without the check of _deleted
upsert_unguarded(t, o, ok) ==
    IF ~HasFlags(t) THEN NoFlags(o)
    ELSE execute(o, "upsert", ok, TRUE, o.deleted)

upsert(t, o, ok) ==
    IF ~HasFlags(t) THEN NoFlags(o)
    ELSE IF o.deleted THEN Outcome(o.exists, o.deleted, <<>>, "UpsertFailedError")
    ELSE execute(o, "upsert", ok, TRUE, o.deleted)

delete(t, o, ok) ==
    IF ~HasFlags(t) THEN NoFlags(o)
    ELSE IF ~o.exists \/ o.deleted THEN Outcome(o.exists, o.deleted, <<>>, "")
    ELSE execute(o, "delete", ok, o.exists, TRUE)

\* the tables whose typedef renders: the insert of a table that is not manual
\* indexes $t.PrimaryKeys at 0
ObjTables ==
    { convertTable(t) : t \in { x \in XoTables : x.Manual \/ \E i \in DOMAIN x.Columns : x.Columns[i].IsPrimary } }

\* a new object of the class of one table
ObjInit ==
    /\ driver = "sqlite3"
    /\ oracleType = ""
    /\ esc = "none"
    /\ schema = ""
    /\ table \in ObjTables
    /\ val = TableArg(table)
    /\ typ = ""
    /\ lines = <<>>
    /\ binds = <<>>
    /\ pc = "start"
    /\ RegIdle
    /\ GenIdle
    /\ ObjIdle

\* a method called on the object, r its outcome
MethodCall(op, r) ==
    /\ exists' = r.exists
    /\ deleted' = r.deleted
    /\ call' = [op |-> op, stmts |-> r.stmts, raised |-> r.raised]
    /\ UNCHANGED <<sqlvars, regvars, genvars>>

Self == [exists |-> exists, deleted |-> deleted]

InsertCall == \E ok \in BOOLEAN : MethodCall("insert", insert(table, Self, ok))

UpdateCall == HasUpdate(table) /\ \E ok \in BOOLEAN : MethodCall("update", update(table, Self, ok))

SaveCall == \E ok \in BOOLEAN : MethodCall("save", save(table, Self, ok))

UpsertCall == \E ok \in BOOLEAN : MethodCall("upsert", upsert(table, Self, ok))

DeleteCall == \E ok \in BOOLEAN : MethodCall("delete", delete(table, Self, ok))

ObjNext ==
    \/ InsertCall
    \/ UpdateCall
    \/ SaveCall
    \/ UpsertCall
    \/ DeleteCall

SpecObj == ObjInit /\ [][ObjNext]_vars

\* ================================================================ properties
\* ------------------------------------------------------------------ helpers
RECURSIVE Flat(_)
\* the statement: the fragments concatenated
Flat(ls) == IF ls = <<>> THEN <<>> ELSE Head(ls) \o Flat(Tail(ls))

\* the placeholder indices of a string, in order of appearance
PhOf(str) == LET ph == SelectSeq(str, LAMBDA t : t.k = "ph")
             IN  [i \in 1..Len(ph) |-> ph[i].n]

\* the column names written in a string, in order of appearance
ColsOf(str) == LET c == SelectSeq(str, LAMBDA t : t.k = "col")
               IN  [i \in 1..Len(c) |-> c[i].s]

\* how many times the literal text s occurs as a piece of a string
CountTxt(str, s) == Len(SelectSeq(str, LAMBDA t : t.k = "txt" /\ t.s = s))

\* <<0, 1, ..., m-1>>
UpTo(m) == [i \in 1..m |-> i - 1]

\* <<a, a+1, ..., a+m-1>>
From(a, m) == [i \in 1..m |-> a + i - 1]

NonSeq(x) == SelectSeq(x.Fields, LAMBDA z : ~z.IsSequence)
NonPk(x) == SelectSeq(x.Fields, LAMBDA z : ~z.IsPrimary)
HasSeq(x) == \E i \in 1..Len(x.Fields) : x.Fields[i].IsSequence

\* the names colname writes for a list of fields
ColNamesOf(fs) == [i \in 1..Len(fs) |-> colname(fs[i]).s]

\* the SQL names of a list of fields
SQLNamesOf(fs) == [i \in 1..Len(fs) |-> fs[i].SQLName]

\* each element of a sequence twice in a row
Twice(q) == [i \in 1..(2 * Len(q)) |-> q[(i + 1) \div 2]]

\* an insert statement was produced (not the unsupported-oracle-type line)
IsInsertStmt == typ \in {"insert", "insert_manual"} /\ Len(lines) = 5

\* ----------------------------------------------------------------------- C1
\* C1 as stated: the insert of manual mode (sqlstr_insert_manual) has as many
\* placeholders as the table has non-auto-generated columns.
C1_Original ==
    typ = "insert_manual" => Len(PhOf(Flat(lines))) = Len(NonSeq(table))

\* C1 amended: for every dialect, the manual insert (which inserts all
\* fields) has one placeholder per column of the table; the sequence-skipping
\* insert has one placeholder per non-auto-generated column in its VALUES
\* list, and that many in the whole statement, except that the oracle "ora"
\* variant adds one output placeholder after them.
C1_InsertParamCount ==
    /\ typ = "insert_manual" =>
          /\ Len(lines) = 5
          /\ Len(PhOf(Flat(lines))) = Len(table.Fields)
          /\ Len(PhOf(lines[4])) = Len(table.Fields)
    /\ typ = "insert" /\ IsInsertStmt =>
          /\ Len(PhOf(lines[4])) = Len(NonSeq(table))
          /\ Len(PhOf(Flat(lines))) =
                Len(NonSeq(table)) + (IF driver = "oracle" /\ oracleType = "ora" THEN 1 ELSE 0)

\* a manual insert of a three-column table that has a sequence column was
\* synthesized, with three placeholders
C1_Witness ==
    /\ typ = "insert_manual"
    /\ HasSeq(table)
    /\ Len(table.Fields) = 3
    /\ Len(PhOf(Flat(lines))) = 3

\* ----------------------------------------------------------------------- C2
\* C2: in an insert statement the k-th listed column (table column order,
\* sequence columns skipped unless all fields are inserted) is paired with
\* placeholder k-1: the column list names exactly those columns in order, the
\* VALUES list holds the placeholders 0..m-1 in order, and both have length m.
C2_InsertPairing ==
    IsInsertStmt =>
        LET sel == IF typ = "insert_manual" THEN table.Fields ELSE NonSeq(table)
            m == Len(sel)
        IN  /\ ColsOf(lines[2]) = ColNamesOf(sel)
            /\ PhOf(lines[4]) = UpTo(m)
            /\ Len(lines[2]) = Len(lines[4])
            /\ PhOf(lines[2]) = <<>> /\ ColsOf(lines[4]) = <<>>
            /\ CountTxt(lines[2], ", ") = (IF m = 0 THEN 0 ELSE m - 1)
            /\ CountTxt(lines[4], ", ") = (IF m = 0 THEN 0 ELSE m - 1)

\* a plain insert skipped a leading sequence column and numbered the two
\* remaining columns 0 and 1
C2_Witness ==
    /\ typ = "insert"
    /\ IsInsertStmt
    /\ Len(table.Fields) = 3
    /\ table.Fields[1].IsSequence
    /\ PhOf(lines[4]) = <<0, 1>>
    /\ ColsOf(lines[2]) = ColNamesOf(SubSeq(table.Fields, 2, 3))

\* ----------------------------------------------------------------------- C3
\* C3: the update statement numbers the SET placeholders 0..n-1 over the
\* non-primary-key fields in column order, the i-th primary-key field of the
\* WHERE clause gets placeholder n+i, and the WHERE equalities are AND-joined.
C3_UpdateContinuity ==
    typ = "update" =>
        LET n == Len(NonPk(table))
            k == Len(table.PrimaryKeys)
        IN  /\ Len(lines) = 3
            /\ ColsOf(lines[2]) = ColNamesOf(NonPk(table))
            /\ PhOf(lines[2]) = UpTo(n)
            /\ ColsOf(lines[3]) = ColNamesOf(table.PrimaryKeys)
            /\ PhOf(lines[3]) = From(n, k)
            /\ CountTxt(lines[3], " AND ") = (IF k = 0 THEN 0 ELSE k - 1)
            /\ CountTxt(lines[3], ", ") = 0
            /\ CountTxt(lines[3], " = ") = k

\* an update of a table with two non-key fields and one primary key: the
\* WHERE placeholder has index 2
C3_Witness ==
    /\ typ = "update"
    /\ Len(NonPk(table)) = 2
    /\ Len(table.PrimaryKeys) = 1
    /\ PhOf(lines[2]) = <<0, 1>>
    /\ PhOf(lines[3]) = <<2>>

\* ----------------------------------------------------------------------- C4
\* C4: for every table with a primary key and every dialect, the WHERE clause
\* of the delete statement has one equality per primary-key field, in
\* primary-key order, AND-joined, with the placeholders 0..len(PrimaryKeys)-1.
C4_DeleteWhere ==
    typ = "delete" /\ Len(table.PrimaryKeys) > 0 =>
        LET k == Len(table.PrimaryKeys)
        IN  /\ Len(lines) = 2
            /\ PhOf(lines[1]) = <<>>
            /\ Len(PhOf(lines[2])) = k
            /\ PhOf(lines[2]) = UpTo(k)
            /\ ColsOf(lines[2]) = ColNamesOf(table.PrimaryKeys)
            /\ CountTxt(lines[2], " = ") = k
            /\ CountTxt(lines[2], " AND ") = k - 1
            /\ CountTxt(lines[2], ", ") = 0

\* a delete of a table with a two-column primary key was synthesized
C4_Witness ==
    /\ typ = "delete"
    /\ Len(table.PrimaryKeys) = 2
    /\ PhOf(lines[2]) = <<0, 1>>
    /\ CountTxt(lines[2], " AND ") = 1

\* ----------------------------------------------------------------------- C5
\* the values of the list literal [..] of the execute call
BoundValues(b) == SelectSeq(b, LAMBDA e : e # <<>>)

\* the index in table.Fields of the field a bound value self.<name> reads, 0 if none
FieldOfName(nm) ==
    LET hit == { i \in 1..Len(table.Fields) :
                    nm \in {table.Fields[i].PythonName, checkName(table.Fields[i].PythonName)} }
    IN  IF hit = {} THEN 0 ELSE CHOOSE i \in hit : TRUE

\* the index in table.Fields of the field a written column name belongs to, 0 if none
FieldOfCol(c) ==
    LET hit == { i \in 1..Len(table.Fields) :
                    c \in {table.Fields[i].SQLName, escfn(table.Fields[i].SQLName)} }
    IN  IF hit = {} THEN 0 ELSE CHOOSE i \in hit : TRUE

\* for each placeholder of the statement, in order of appearance, the column
\* it stands for: the column of "col = ph" and "col INTO ph", the column of
\* "ph col" in the USING (SELECT ..) of a MERGE, and for the VALUES list of an
\* insert the column at the same position of the column list
PhCols(ls) ==
    LET st == Flat(ls)
        at == SelectSeq([j \in 1..Len(st) |-> j], LAMBDA j : st[j].k = "ph")
        valuesCols == IF Len(ls) >= 5 /\ ls[3] = <<Txt(") VALUES (")>> THEN ColsOf(ls[2]) ELSE <<>>
    IN  [i \in 1..Len(at) |->
            LET j == at[i]
            IN  IF j > 2 /\ st[j - 2].k = "col" /\ st[j - 1].s \in {" = ", " INTO "}
                THEN st[j - 2].s
                ELSE IF j + 2 <= Len(st) /\ st[j + 2].k = "col" /\ st[j + 1].s = " "
                THEN st[j + 2].s
                ELSE IF i <= Len(valuesCols) THEN valuesCols[i]
                ELSE ""]

\* the typ's statement was produced (not an unsupported-type line)
IsStatement == ~(Len(lines) = 1)

\* C5: the value list of the execute call rendered after a statement has the
\* same length as the statement's placeholders, and its k-th value is the
\* field the k-th placeholder stands for (insert, insert_manual, update,
\* upsert and delete of the typedef template).
C5_BindsMatchPlaceholders ==
    pc = "run" /\ IsStatement =>
        LET bv == BoundValues(binds)
            pcs == PhCols(lines)
        IN  /\ Len(bv) = Len(pcs)
            /\ \A i \in 1..Len(bv) :
                  i <= Len(pcs) => FieldOfName(bv[i][Len(bv[i])]) = FieldOfCol(pcs[i])

\* ----------------------------------------------------------------------- C6
\* C6: for postgres and sqlite the upsert appends to the full-field insert
\* the clause ON CONFLICT (<primary-key columns in order>) DO UPDATE SET
\* c = EXCLUDED.c over exactly the non-primary-key columns in column order;
\* for columns (id, name, email) with primary key (id), and column escaping
\* off, the clause reads
\* ON CONFLICT (id) DO UPDATE SET name = EXCLUDED.name, email = EXCLUDED.email.
C6_UpsertOnConflict ==
    typ = "upsert" /\ driver \in {"postgres", "sqlite3"} =>
        LET n == Len(NonPk(table))
        IN  /\ Len(lines) = 8
            /\ Len(PhOf(Flat(SubSeq(lines, 1, 5)))) = Len(table.Fields)
            /\ lines[6][1] = Txt(" ON CONFLICT (")
            /\ ColsOf(lines[6]) = SQLNamesOf(table.PrimaryKeys)
            /\ lines[6][Len(lines[6])] = Txt(") DO ")
            /\ lines[7] = <<Txt("UPDATE SET ")>>
            /\ ColsOf(lines[8]) = Twice(ColNamesOf(NonPk(table)))
            /\ CountTxt(lines[8], "EXCLUDED.") = n
            /\ CountTxt(lines[8], " = ") = n
            /\ PhOf(lines[6] \o lines[7] \o lines[8]) = <<>>
            /\ (/\ SQLNamesOf(table.Fields) = <<"id", "name", "email">>
                /\ SQLNamesOf(table.PrimaryKeys) = <<"id">>
                /\ ~escColumn)
               => Text(lines[6] \o lines[7] \o lines[8]) =
                    " ON CONFLICT (id) DO UPDATE SET name = EXCLUDED.name, email = EXCLUDED.email "

\* the upsert of (id, name, email) with primary key (id) for sqlite
C6_Witness ==
    /\ typ = "upsert"
    /\ driver = "sqlite3"
    /\ SQLNamesOf(table.Fields) = <<"id", "name", "email">>
    /\ SQLNamesOf(table.PrimaryKeys) = <<"id">>
    /\ ~escColumn
    /\ Text(lines[6] \o lines[7] \o lines[8]) =
          " ON CONFLICT (id) DO UPDATE SET name = EXCLUDED.name, email = EXCLUDED.email "

\* ----------------------------------------------------------------------- C7
\* C7: for mysql the upsert appends ON DUPLICATE KEY UPDATE followed by
\* c = VALUES(c) for every non-auto-generated column and no other, in column
\* order; for columns (id, name, email) whose auto-generated primary key is
\* id, and column escaping off, the clause reads
\* ON DUPLICATE KEY UPDATE name = VALUES(name), email = VALUES(email).
C7_UpsertMysql ==
    typ = "upsert" /\ driver = "mysql" =>
        LET n == Len(NonSeq(table))
        IN  /\ Len(lines) = 7
            /\ lines[6] = <<Txt(" ON DUPLICATE KEY UPDATE ")>>
            /\ ColsOf(lines[7]) = Twice(ColNamesOf(NonSeq(table)))
            /\ CountTxt(lines[7], " = VALUES(") = n
            /\ CountTxt(lines[7], ")") = n
            /\ PhOf(lines[7]) = <<>>
            /\ (/\ SQLNamesOf(table.Fields) = <<"id", "name", "email">>
                /\ SQLNamesOf(table.PrimaryKeys) = <<"id">>
                /\ SQLNamesOf(NonSeq(table)) = <<"name", "email">>
                /\ ~escColumn)
               => Text(lines[6] \o lines[7]) =
                    " ON DUPLICATE KEY UPDATE name = VALUES(name), email = VALUES(email)"

\* the mysql upsert of (id, name, email) whose primary key id is auto-generated
C7_Witness ==
    /\ typ = "upsert"
    /\ driver = "mysql"
    /\ SQLNamesOf(table.Fields) = <<"id", "name", "email">>
    /\ SQLNamesOf(table.PrimaryKeys) = <<"id">>
    /\ SQLNamesOf(NonSeq(table)) = <<"name", "email">>
    /\ ~escColumn
    /\ Text(lines[6] \o lines[7]) =
          " ON DUPLICATE KEY UPDATE name = VALUES(name), email = VALUES(email)"

\* ----------------------------------------------------------------------- C8
\* C8: for sqlserver and oracle the MERGE joins source and target on equality
\* of every primary-key column, its WHEN MATCHED UPDATE branch sets exactly
\* the columns that are neither primary-key nor auto-generated, its WHEN NOT
\* MATCHED INSERT branch lists exactly the non-auto-generated columns in both
\* the column list and the VALUES list, and no auto-generated column appears
\* in either branch.
C8_MergeBranches ==
    typ = "upsert" /\ driver \in {"sqlserver", "oracle"} =>
        LET nonseq == NonSeq(table)
            upd == SelectSeq(nonseq, LAMBDA z : ~z.IsPrimary)
            seqNames == { table.Fields[i].SQLName :
                            i \in { j \in 1..Len(table.Fields) : table.Fields[j].IsSequence } }
            inBranches == ColsOf(lines[8]) \o ColsOf(lines[11]) \o ColsOf(lines[13])
        IN  /\ Len(lines) = 14
            /\ ColsOf(lines[5]) = Twice(SQLNamesOf(table.PrimaryKeys))
            /\ CountTxt(lines[5], " = t.") = Len(table.PrimaryKeys)
            /\ lines[6] = <<Txt("WHEN MATCHED THEN ")>>
            /\ ColsOf(lines[8]) = Twice(SQLNamesOf(upd))
            /\ lines[9] = <<Txt("WHEN NOT MATCHED THEN ")>>
            /\ ColsOf(lines[11]) = SQLNamesOf(nonseq)
            /\ ColsOf(lines[13]) = SQLNamesOf(nonseq)
            /\ \A i \in 1..Len(inBranches) : inBranches[i] \notin seqNames

\* a MERGE for a table with a sequence primary key and two other columns
C8_Witness ==
    /\ typ = "upsert"
    /\ driver = "sqlserver"
    /\ Len(table.Fields) = 3
    /\ table.Fields[1].IsSequence /\ table.Fields[1].IsPrimary
    /\ Len(NonSeq(table)) = 2 /\ Len(table.PrimaryKeys) = 1
    /\ ColsOf(lines[8]) = <<"name", "name", "email", "email">>
    /\ ColsOf(lines[11]) = <<"name", "email">>

\* ----------------------------------------------------------------------- C9
\* C9 as stated: for every supported dialect the upsert fragment list starts
\* with the fragments of the insert-all-fields statement of the same table.
C9_Original ==
    typ = "upsert" =>
        /\ Len(lines) >= 5
        /\ SubSeq(lines, 1, 5) = sqlstr_insert_manual(table)

\* C9 amended: for postgres, sqlite and mysql the upsert fragment list is the
\* fragments of the insert-all-fields statement followed by the dialect's
\* conflict clause; for sqlserver and oracle the insert fragments are dropped
\* and the list is the MERGE statement alone, which does not start with them.
C9_UpsertPrefix ==
    typ = "upsert" =>
        /\ driver \in {"postgres", "sqlite3", "mysql"} =>
              /\ Len(lines) > 5
              /\ SubSeq(lines, 1, 5) = sqlstr_insert_manual(table)
        /\ driver \in {"sqlserver", "oracle"} =>
              /\ Len(lines) = 14
              /\ lines[1] # sqlstr_insert_manual(table)[1]
              /\ CountTxt(Flat(lines), "USING (") = 1
              /\ \A i \in 1..Len(lines) : lines[i] # sqlstr_insert_manual(table)[1]

\* an upsert for oracle: the MERGE statement alone, without the insert fragments
C9_Witness ==
    /\ typ = "upsert"
    /\ driver = "oracle"
    /\ Len(lines) = 14
    /\ SubSeq(lines, 1, 5) # sqlstr_insert_manual(table)

\* ---------------------------------------------------------------------- C10
\* C10: the plain insert appends a generated-key suffix exactly when the table
\* has an auto-generated primary key and the dialect returns values: postgres
\* appends RETURNING <that column>, sqlserver appends the SCOPE_IDENTITY()
\* select, mysql and sqlite get the plain insert, and a table with no
\* auto-generated column gets no suffix.
C10_InsertSuffix ==
    typ = "insert" =>
        LET base == sqlstr_insert_base(FALSE, table)
            seqPk == SelectSeq(table.Fields, LAMBDA z : z.IsSequence /\ z.IsPrimary)
        IN  /\ driver \in {"mysql", "sqlite3"} => lines = base
            /\ ~HasSeq(table) => lines = base
            /\ driver = "postgres" /\ seqPk # <<>> =>
                  lines = AppendLast(base, <<Txt(" RETURNING "), colname(seqPk[Len(seqPk)])>>)
            /\ driver = "sqlserver" /\ seqPk # <<>> =>
                  lines = AppendLast(base, <<Txt("; SELECT ID = CONVERT(BIGINT, SCOPE_IDENTITY())")>>)

\* ---------------------------------------------------------------------- C11
\* the last token of the statement
LastTok(ls) == Flat(ls)[Len(Flat(ls))]

\* C11 as stated: for oracle and each recognized variant (ora, godror) the
\* insert ends in an output placeholder whose index is the number of input
\* placeholders, the count of non-auto-generated columns.
C11_Original ==
    typ = "insert" /\ driver = "oracle" /\ oracleType \in {"ora", "godror"} =>
        LET count == Len(NonSeq(table))
        IN  /\ LastTok(lines).k = "ph"
            /\ LastTok(lines).n = count
            /\ PhOf(Flat(lines)) = UpTo(count + 1)

\* C11 amended: for the oracle variant "ora" the statement ends in INTO
\* followed by a placeholder that comes after all input placeholders and
\* whose index is the number of input placeholders (the count of
\* non-auto-generated columns); for the variant "godror" the output parameter
\* is the fixed named parameter :pk, not a numbered placeholder, so the
\* statement holds the input placeholders only.
C11_OracleInto ==
    typ = "insert" /\ driver = "oracle" =>
        LET count == Len(NonSeq(table))
        IN  /\ oracleType = "ora" =>
                  /\ Len(lines) = 5
                  /\ PhOf(lines[4]) = UpTo(count)
                  /\ LastTok(lines) = nth(count)
                  /\ Flat(lines)[Len(Flat(lines)) - 1] = Txt(" INTO ")
                  /\ PhOf(lines[5]) = <<count>>
                  /\ PhOf(Flat(lines)) = UpTo(count + 1)
            /\ oracleType = "godror" =>
                  /\ Len(lines) = 5
                  /\ LastTok(lines) = Txt(" /*LASTINSERTID*/ INTO :pk")
                  /\ PhOf(lines[5]) = <<>>
                  /\ PhOf(Flat(lines)) = UpTo(count)

\* an oracle "ora" insert of a three-column table with one sequence column:
\* inputs 0 and 1, output placeholder 2 at the end
C11_Witness ==
    /\ typ = "insert" /\ driver = "oracle" /\ oracleType = "ora"
    /\ Len(table.Fields) = 3
    /\ Len(NonSeq(table)) = 2
    /\ PhOf(lines[4]) = <<0, 1>>
    /\ LastTok(lines) = nth(2)

\* ---------------------------------------------------------------------- C12
\* C12: select-by-index selects every column of the index's table in column
\* order, and its WHERE clause has one equality per index field, in index
\* order, AND-joined, the i-th (from 0) with placeholder index i, so the
\* placeholders are 0..len(Index.Fields)-1.
C12_SelectByIndex ==
    typ = "index" /\ val.t = "Index" =>
        LET x == val.v
            k == Len(x.Fields)
        IN  /\ Len(lines) = 4
            /\ lines[1] = <<Txt("SELECT ")>>
            /\ ColsOf(lines[2]) = ColNamesOf(x.Table.Fields)
            /\ CountTxt(lines[2], ", ") = Len(x.Table.Fields) - 1
            /\ PhOf(lines[1] \o lines[2] \o lines[3]) = <<>>
            /\ lines[4][1] = Txt("WHERE ")
            /\ Len(lines[4]) = 4 * k
            /\ \A i \in 1..k :
                  SubSeq(lines[4], 4 * i - 2, 4 * i) =
                      <<colname(x.Fields[i]), Txt(" = "), nth(i - 1)>>
            /\ PhOf(lines[4]) = UpTo(k)
            /\ CountTxt(lines[4], " AND ") = k - 1
            /\ CountTxt(lines[4], ", ") = 0

\* a select by an index on (email, id) of the table (id, name, email): all
\* three columns selected, email = nth(0) AND id = nth(1)
C12_Witness ==
    /\ typ = "index" /\ val.t = "Index"
    /\ ~escColumn
    /\ ColsOf(lines[2]) = <<"id", "name", "email">>
    /\ ColsOf(lines[4]) = <<"email", "id">>
    /\ PhOf(lines[4]) = <<0, 1>>
    /\ CountTxt(lines[4], " AND ") = 1

\* ---------------------------------------------------------------------- C13
TableKinds == {"insert_manual", "insert", "update", "upsert", "delete"}

\* the Go type the function selected by typ expects
Expected(t) == IF t = "index" THEN "Index" ELSE IF t = "proc" THEN "Proc" ELSE "Table"

UnknownKind == typ # "" /\ typ \notin TableKinds \cup {"proc", "index"}
WrongType == typ \in TableKinds \cup {"proc", "index"} /\ val.t # Expected(typ)
NoCallFormat == typ = "proc" /\ val.t = "Proc" /\ driver = "sqlite3"
BadOracleType ==
    typ = "insert" /\ val.t = "Table" /\ driver = "oracle" /\ oracleType \notin {"ora", "godror"}

\* the last sqlstr call was given an unsupported combination
UnsupportedCall == UnknownKind \/ WrongType \/ NoCallFormat \/ BadOracleType

\* the number written in the marker of the function selected by typ
MarkerNo(t) ==
    CASE t = "insert_manual" -> "17"
      [] t = "insert" -> "18"
      [] t = "update" -> "20"
      [] t = "upsert" -> "21 " \o driver
      [] t = "delete" -> "25"
      [] t = "index" -> "26"
      [] t = "proc" -> "27"

NamedList(fs) == Join([i \in 1..Len(fs) |-> <<Txt(":"), ColTok(fs[i].SQLName)>>], ", ")

\* the placeholders nth(0), .., nth(m-1), ", "-joined
PositionalList(m) == Join([i \in 1..m |-> <<nth(i - 1)>>], ", ")

\* C14 as stated: a procedure-call statement binds by name (:name) for oracle
\* and by the positional placeholders nth(0), nth(1), .. for every other
\* dialect; a function is a SELECT expression and any other proc the call
\* form of the dialect (CALL, bare name or BEGIN .. END), for each of the
\* five dialects.
C14_Original ==
    typ = "proc" /\ val.t = "Proc" =>
        LET x == val.v
            st == Flat(lines)
        IN  /\ driver = "oracle" =>
                  /\ PhOf(st) = <<>>
                  /\ CountTxt(st, ":") = Len(ColsOf(st))
                  /\ Len(x.Params) > 0 => CountTxt(st, ":") > 0
            /\ driver # "oracle" => PhOf(st) = UpTo(Len(x.Params))
            /\ x.Type = "function" => st[1].s \in {"SELECT ", "SELECT * FROM "}
            /\ x.Type # "function" =>
                  st[1].s \in {"CALL ", "BEGIN ", schemafn(x.SQLName)}

\* C14 amended: a proc that is not a function is CALL name(p) for postgres
\* and mysql with p the placeholders nth(0), .., nth(n-1) of its n
\* parameters, the bare schema-qualified name without any parameter for
\* sqlserver, and BEGIN name(:p1, .., :r1, ..); END; for oracle with the
\* unqualified name and the SQL names of the parameters followed by those of
\* the return fields.  A function is a SELECT expression (SELECT * FROM
\* name(p), SELECT name(p), SELECT name(p) AS OUT, SELECT name(p) FROM dual)
\* whose parameters are the positional placeholders for each of these four
\* dialects, oracle included.  sqlite3 has neither form: the text is the
\* leftover-argument report of an empty format.
C14_ProcCall ==
    typ = "proc" /\ val.t = "Proc" =>
        LET x == val.v
            name == Txt(schemafn(x.SQLName))
            p == PositionalList(Len(x.Params))
        IN  /\ Len(lines) = 1
            /\ x.Type # "function" /\ driver \in {"postgres", "mysql"} =>
                  lines[1] = <<Txt("CALL "), name, Txt("(")>> \o p \o <<Txt(")")>>
            /\ x.Type # "function" /\ driver = "sqlserver" => lines[1] = <<name>>
            /\ x.Type # "function" /\ driver = "oracle" =>
                  lines[1] = <<Txt("BEGIN "), Txt(x.SQLName), Txt("(")>> \o
                             NamedList(x.Params \o x.Returns) \o <<Txt("); END;")>>
            /\ driver = "sqlite3" =>
                  lines[1] = <<Txt("%!(EXTRA "), Txt("string="), name, Txt(", "), Txt("string=")>>
                             \o p \o <<Txt(")")>>
            /\ x.Type = "function" /\ driver # "sqlite3" =>
                  /\ PhOf(lines[1]) = UpTo(Len(x.Params))
                  /\ ColsOf(lines[1]) = <<>>
                  /\ lines[1] =
                        <<Txt(IF driver = "postgres" THEN "SELECT * FROM " ELSE "SELECT "),
                          name, Txt("(")>> \o p \o
                        <<Txt(CASE driver = "sqlserver" -> ") AS OUT"
                                [] driver = "oracle" -> ") FROM dual"
                                [] OTHER -> ")")>>

\* an oracle procedure with two parameters and a return field: all three
\* bound by name inside BEGIN .. END
C14_Witness ==
    /\ typ = "proc" /\ val.t = "Proc" /\ driver = "oracle"
    /\ val.v.Type = "procedure"
    /\ Text(Flat(lines)) = "BEGIN get_user(:a, :b, :r); END;"

\* ---------------------------------------------------------------------- C15
\* the lowercase first characters of the words of the type names of the
\* model, the word id left out
DerivedOf ==
    ("UserAccount" :> "ua") @@ ("userAccount" :> "ua") @@ ("DatabaseBackup" :> "db") @@
    ("AccountSetting" :> "as") @@ ("UserID" :> "u")

\* a name, followed by the conflict suffix once if the templates use the name
Suffixed(d) == IF d \in templateReservedNames THEN d \o conflict ELSE d

\* C15 as stated: short of a name that was not in the registry is the
\* lowercase first character of each word but id, concatenated (UserAccount
\* gives ua), followed by the conflict suffix exactly once if that is a
\* template-reserved word, on the first call and on every later call.
C15_Original ==
    last.op = "short" /\ last.arg \in DOMAIN DerivedOf =>
        last.res = Suffixed(DerivedOf[last.arg])

\* C15 amended: the derived name (the lowercase first character of each word
\* but id, concatenated) is replaced by its substitute when it is a key of the
\* reserved-word table (AccountSetting gives as_), and that name is what the
\* registry keeps; the result is that name, followed by the conflict suffix
\* exactly once if it is a template-reserved word (DatabaseBackup gives
\* db<suffix>), on the first call and on every later call.
C15_ShortDerivation ==
    last.op = "short" /\ last.arg \in DOMAIN DerivedOf =>
        LET d == DerivedOf[last.arg]
            c == IF d \in DOMAIN pythonReservedNames THEN pythonReservedNames[d] ELSE d
        IN  /\ last.res = Suffixed(c)
            /\ shorts[last.arg] = c
            /\ last.arg = "UserAccount" => last.res = "ua"

\* a later call for DatabaseBackup, already registered as db: the suffix Val
\* once
C15_Witness ==
    /\ last.op = "short" /\ last.arg = "DatabaseBackup" /\ ~last.miss
    /\ conflict = "Val"
    /\ last.res = "dbVal"
    /\ shorts["DatabaseBackup"] = "db"

\* ---------------------------------------------------------------------- C16
\* C16: over any sequence of short calls (and of contexts) an entry of the
\* registry is never overwritten or removed, a call for a registered type
\* name leaves the registry as it is, and a call for an unregistered name
\* adds exactly that one key.
C16_RegistryMonotone ==
    [][ /\ \A k \in DOMAIN shorts : k \in DOMAIN shorts' /\ shorts'[k] = shorts[k]
        /\ last'.op = "short" /\ last'.arg \in DOMAIN shorts => shorts' = shorts
        /\ last'.op = "short" /\ last'.arg \notin DOMAIN shorts =>
              /\ last'.miss
              /\ DOMAIN shorts' = DOMAIN shorts \cup {last'.arg}
              /\ Cardinality(DOMAIN shorts') = Cardinality(DOMAIN shorts) + 1
      ]_vars

\* a call for UserAccount found it registered, after DatabaseBackup had been
\* registered too: the registry holds the ten entries of Init and these two
C16_Witness ==
    /\ last.op = "short" /\ last.arg = "UserAccount" /\ ~last.miss
    /\ "DatabaseBackup" \in DOMAIN shorts
    /\ Cardinality(DOMAIN shorts) = Cardinality(DOMAIN InitShorts) + 2

\* ---------------------------------------------------------------------- C17
\* C17: within a context, short returns the same value every time it is
\* called with the same type name, whether the first of the calls found the
\* name registered or not, whatever other names were derived in between.
C17_ShortStable ==
    /\ \A p, q \in results : p[1] = q[1] => p[2] = q[2]
    /\ last.op = "short" => <<last.arg, last.res>> \in results

\* AccountSetting was derived, then other names, then AccountSetting again:
\* one value, as_, for it
C17_Witness ==
    /\ last.op = "short" /\ last.arg = "AccountSetting" /\ ~last.miss
    /\ Cardinality(results) >= 3
    /\ \A p \in results : p[1] = "AccountSetting" => p[2] = "as_"

\* ---------------------------------------------------------------------- C18
\* C18 as stated: the registry is created empty at the start of each
\* generation run and is not carried over from one run (context) to the
\* next; here even with the ten entries of Init counted as empty.
C18_Original ==
    last.op = "NewContext" => DOMAIN shorts \subseteq DOMAIN InitShorts

\* C18 amended: the registry is created once, when the template is
\* registered, holding the ten builtin-type entries of Init; it is never
\* reset, neither during a run nor between runs: every context is given that
\* same map, so a new context starts with every entry the contexts before it
\* had registered.
C18_RegistryShared ==
    /\ [](\A k \in DOMAIN InitShorts : k \in DOMAIN shorts /\ shorts[k] = InitShorts[k])
    /\ [][ /\ run' # run => shorts' = shorts
           /\ DOMAIN shorts \subseteq DOMAIN shorts'
         ]_vars

\* the second context was made and finds UserAccount registered by the first
C18_Witness ==
    /\ run = 2
    /\ last.op = "NewContext"
    /\ "UserAccount" \in DOMAIN shorts
    /\ shorts["UserAccount"] = "ua"

\* ---------------------------------------------------------------------- C19
\* the keywords of Python 3
PythonKeywords ==
    {"False", "None", "True", "and", "as", "assert", "async", "await", "break",
     "class", "continue", "def", "del", "elif", "else", "except", "finally",
     "for", "from", "global", "if", "import", "in", "is", "lambda", "nonlocal",
     "not", "or", "pass", "raise", "return", "try", "while", "with", "yield"}

IsKey(n) == n \in DOMAIN pythonReservedNames

\* C19: the reserved-word table maps every reserved keyword of the output
\* language to a substitute, the substitutes of different keys are pairwise
\* distinct, and no substitute is itself a key of the table.
C19_ReservedTable ==
    /\ last.op = "checkName" /\ last.arg \in PythonKeywords => last.res # last.arg
    /\ last.op = "checkName" /\ IsKey(last.arg) => ~IsKey(last.res)
    /\ (/\ last.op = "checkName" /\ prev.op = "checkName"
        /\ IsKey(last.arg) /\ IsKey(prev.arg) /\ last.arg # prev.arg)
       => last.res # prev.res

\* ---------------------------------------------------------------------- C20
\* the lower-case form of the mixed-case names of the model
LowerOfCased ==
    ("Class" :> "class") @@ ("nonLocal" :> "nonlocal") @@ ("byteArray" :> "bytearray") @@
    ("userName" :> "username") @@ ("None" :> "none") @@ ("ID" :> "id")

LowerStr(n) == IF n \in DOMAIN LowerOfCased THEN LowerOfCased[n] ELSE n

\* the type written after the name when param is asked for it
TypeSuffix == IF last.addType THEN ": str" ELSE ""

\* C20 as stated: in checkName and in param alike the already-cased
\* identifier is substituted only when it equals a key of the table exactly;
\* a name that differs from a key only in letter case is left unchanged.
C20_Original ==
    last.op \in {"checkName", "param"} =>
        last.res = (IF IsKey(last.cased) THEN pythonReservedNames[last.cased] ELSE last.cased)
                   \o TypeSuffix

\* C20 amended: checkName looks the name up exactly as it is cased, so a name
\* that differs from a key only in letter case is left unchanged; param
\* lower-cases the first word of the field name, then looks up the lower-case
\* form of the whole name, so a name that differs from a key only in the
\* case of a later word is substituted (nonLocal gives nlcl, byteArray gives
\* ba) and the keys False, None and True are never hit by param.
C20_ReservedLookup ==
    /\ last.op = "checkName" =>
          /\ last.res = (IF IsKey(last.arg) THEN pythonReservedNames[last.arg] ELSE last.arg)
          /\ ~IsKey(last.arg) /\ IsKey(LowerStr(last.arg)) => last.res = last.arg
    /\ last.op = "param" =>
          /\ last.res = (IF IsKey(LowerStr(last.cased))
                         THEN pythonReservedNames[LowerStr(last.cased)]
                         ELSE last.cased) \o TypeSuffix
          /\ last.cased \notin {"False", "None", "True"}

\* param for the field nonLocal: the name differs from the key nonlocal in
\* the case of one letter and is written nlcl
C20_Witness ==
    /\ last.op = "param" /\ last.arg = "nonLocal" /\ ~last.addType
    /\ last.cased = "nonLocal"
    /\ last.res = "nlcl"
    /\ prev.op = "checkName" /\ prev.arg = "nonLocal" /\ prev.res = "nonLocal"
\* ------------------------------------------------------------------- C21
RECURSIVE AllTables(_)
\* the tables and views of the schemas, in the order Process converts them
AllTables(ss) ==
    IF ss = <<>> THEN <<>>
    ELSE Head(ss).Tables \o Head(ss).Views \o AllTables(Tail(ss))

\* the typedef templates emitted so far, in order
Typedefs == SelectSeq(emitted, LAMBDA t : t.Partial = "typedef")

\* the positions of the primary columns of a xo.Table
PkPositions(src) == { i \in 1..Len(src.Columns) : src.Columns[i].IsPrimary }

\* the j-th smallest element of a set of positions
NthOf(pos, j) == CHOOSE i \in pos : Cardinality({ x \in pos : x <= i }) = j

\* C21: every converted table (the Data of an emitted typedef) has one Field
\* per column of its xo.Table, in column order, and its PrimaryKeys are exactly
\* the Fields of the primary columns, in column order.
C21_PrimaryKeys ==
    mode = "schema" =>
        \A k \in 1..Len(Typedefs) :
            LET src == AllTables(set.Schemas)[k]
                t == Typedefs[k].Data
                pos == PkPositions(src)
            IN  /\ t.SQLName = src.Name
                /\ Len(t.Fields) = Len(src.Columns)
                /\ \A i \in 1..Len(t.Fields) :
                      /\ t.Fields[i].SQLName = src.Columns[i].Name
                      /\ t.Fields[i].IsPrimary = src.Columns[i].IsPrimary
                /\ Len(t.PrimaryKeys) = Cardinality(pos)
                /\ \A j \in 1..Len(t.PrimaryKeys) :
                      t.PrimaryKeys[j] = t.Fields[NthOf(pos, j)]

\* a table whose second column is its only primary one has been converted,
\* and so has one whose columns are both primary
C21_Witness ==
    /\ gpc = "done"
    /\ mode = "schema"
    /\ err = ""
    /\ Len(Typedefs) >= 2
    /\ Len(Typedefs[1].Data.Fields) = 2
    /\ ~Typedefs[1].Data.Fields[1].IsPrimary
    /\ Typedefs[1].Data.PrimaryKeys = << Typedefs[1].Data.Fields[2] >>

\* ------------------------------------------------------------------- C22
\* the wrapper lists of at most MaxDepth wrappers, outermost first
WrapSeqs == UNION { [1..n -> {ListPrefix, OptionalPrefix}] : n \in 0..MaxDepth }

RECURSIVE Wrap(_, _)
\* the type name of T under the wrappers W
Wrap(W, T) == IF W = <<>> THEN T ELSE Head(W) \o Wrap(Tail(W), T) \o <<"]">>

\* T with the custom package before it, unless T is known or qualified
Qualified(T) ==
    IF IndexOf(T, ".") # 0 \/ Str(T) \in knownTypes \/ ctx.custom = <<>>
    THEN T
    ELSE ctx.custom \o <<".">> \o T

\* C22: typefn strips the list[ and Optional[ wrappers down to the base type T
\* and puts them back in the same nesting with as many closing brackets
\* (T itself with the custom package when it is not a known type), and
\* convertTypes unwraps a field type Optional[X] to exactly X.
C22_Unwrap ==
    /\ last.op = "type" =>
          \E T \in BaseTypes, W \in WrapSeqs :
              /\ val.v = Wrap(W, T)
              /\ last.res = Str(Wrap(W, Qualified(T)))
    /\ last.op = "convertTypes" =>
          LET F == val.v.Fields[1].Type
              R == val.v.RefFields[1].Type
          IN  \A X \in Wrapped(MaxDepth) :
                  (F = OptionalPrefix \o X \o <<"]">> /\ F # R) =>
                      last.res = (IF ToLower(R) # X
                                  THEN Str(R) \o "(u.user_id." \o Str(X) \o ")"
                                  ELSE "u.user_id." \o Str(X)) \o ", u.id"

\* type has been called on Optional[list[Point]] with the custom package set,
\* the inner type is not a known one
C22_Witness ==
    /\ last.op = "type"
    /\ last.arg = "Optional[list[Point]]"
    /\ ctx.custom # <<>>
    /\ last.res = "Optional[list[models.Point]]"

\* ------------------------------------------------------------------- C23
\* C23: fileNames returns ErrNoSingle exactly when the mode is query, the
\* single flag is unset and a query of the set is an exec query (Pre then
\* returns that error); with the single flag set it returns that one file name
\* and no error, whatever the set holds.
C23_NoSingle ==
    last.op = "fileNames" =>
        /\ last.err \in {"", ErrNoSingle}
        /\ last.err = ErrNoSingle <=>
              /\ mode = "query"
              /\ ctx.single = ""
              /\ \E k \in DOMAIN set.Queries : set.Queries[k].Exec
        /\ last.err = ErrNoSingle => err = ErrNoSingle
        /\ ctx.single # "" => last.res = {ctx.single} /\ last.err = ""

\* fileNames has met an exec query after a plain one, with no single file
C23_Witness ==
    /\ last.op = "fileNames"
    /\ mode = "query"
    /\ ctx.single = ""
    /\ Len(set.Queries) = 2
    /\ ~set.Queries[1].Exec
    /\ set.Queries[2].Exec
    /\ err = ErrNoSingle

\* ------------------------------------------------------------------- C24
\* a unit of the schema: the template it gets, its SQL name, its conversion error
Unit(partial, name, e) == [partial |-> partial, name |-> name, err |-> e]

RECURSIVE TableUnits(_)
\* a table's units: the table, then its indexes, then its foreign keys
TableUnits(ts) ==
    IF ts = <<>> THEN <<>>
    ELSE LET t == Head(ts)
         IN  << Unit("typedef", t.Name, convertTable_err(driver, t)) >>
             \o [k \in DOMAIN t.Indexes |->
                    Unit("index", t.Indexes[k].Name, convertIndex_err(driver, t.Indexes[k]))]
             \o [k \in DOMAIN t.ForeignKeys |->
                    Unit("foreignkey", t.ForeignKeys[k].Name,
                         convertFKey_err(driver, t.ForeignKeys[k]))]
             \o TableUnits(Tail(ts))

RECURSIVE SchemaUnits(_)
\* the units of the schemas in the order Process takes them
SchemaUnits(ss) ==
    IF ss = <<>> THEN <<>>
    ELSE LET sch == Head(ss)
         IN  [k \in DOMAIN sch.Enums |-> Unit("enum", sch.Enums[k].Name, "")]
             \o [k \in DOMAIN sch.Procs |->
                    Unit("procs", sch.Procs[k].Name, convertProc_err(driver, sch.Procs[k]))]
             \o TableUnits(sch.Tables \o sch.Views)
             \o SchemaUnits(Tail(ss))

RECURSIVE FirstFailingFrom(_, _)
\* the position of the first unit from k on whose conversion fails, 0 if none does
FirstFailingFrom(us, k) ==
    IF k > Len(us) THEN 0
    ELSE IF us[k].err # "" THEN k
    ELSE FirstFailingFrom(us, k + 1)

FirstFailing(us) == FirstFailingFrom(us, 1)

\* the SQL name of what a template carries
DataName(t) ==
    IF t.Partial = "procs" THEN t.Data.Procs[1].SQLName ELSE t.Data.SQLName

\* C24: in schema mode, when the conversion of a unit (table, index, foreign
\* key, proc) fails, Process returns that unit's error and has emitted the
\* templates of the units before it, one each and in order, none for the
\* failing unit and none after it; when no conversion fails it returns no
\* error and every unit has its template.
C24_FailFast ==
    (gpc = "done" /\ mode = "schema") =>
        LET us == SchemaUnits(set.Schemas)
            f == FirstFailing(us)
            n == IF f = 0 THEN Len(us) ELSE f - 1
        IN  /\ err = (IF f = 0 THEN "" ELSE us[f].err)
            /\ Len(emitted) = n
            /\ \A k \in 1..n :
                  /\ emitted[k].Partial = us[k].partial
                  /\ DataName(emitted[k]) = us[k].name

\* the index of the first table failed to convert after the table's typedef
\* was emitted, with a foreign key and another table still to come
C24_Witness ==
    /\ gpc = "done"
    /\ mode = "schema"
    /\ driver = "sqlite3"
    /\ err = "unknown type geometry"
    /\ Len(emitted) >= 1
    /\ emitted[Len(emitted)].Partial = "typedef"
    /\ LET us == SchemaUnits(set.Schemas)
       IN  /\ FirstFailing(us) # 0
           /\ us[FirstFailing(us)].partial = "index"
           /\ Len(us) >= FirstFailing(us) + 2

\* ------------------------------------------------------------------- C25
\* C25: once delete has set _deleted, every method call leaves it set; insert,
\* update, save and upsert raise and delete returns, none of them having
\* handed a statement to cursor.execute.
C25_DeletedForGood ==
    [][deleted =>
          /\ deleted'
          /\ call'.stmts = <<>>
          /\ call'.op \in {"insert", "update", "save", "upsert"} => call'.raised # ""
          /\ call'.op = "delete" => call'.raised = ""]_vars

\* upsert has been called on an object marked for deletion and has raised
C25_Witness ==
    /\ deleted
    /\ exists
    /\ call.op = "upsert"
    /\ call.raised = "UpsertFailedError"
    /\ call.stmts = <<>>

\* C26: a rejected or failed operation leaves the lifecycle flags as they were:
\* insert on an object that exists raises InsertFailedError, update on an
\* object that does not exist raises UpdateFailedError, whatever a call raises
\* (its guard or cursor.execute) it leaves _exists and _deleted unchanged, and
\* a call whose guard fails hands no statement to cursor.execute.
C26_RejectedUnchanged ==
    [][/\ (call'.op = "insert" /\ exists) =>
              call'.raised = "InsertFailedError" /\ call'.stmts = <<>>
       /\ (call'.op = "update" /\ ~exists) =>
              call'.raised = "UpdateFailedError" /\ call'.stmts = <<>>
       /\ call'.raised # "" => exists' = exists /\ deleted' = deleted]_vars

\* C27: in the class of a table with a primary key, whatever sequence of
\* insert, update, save, upsert and delete is called on a new object, _deleted
\* implies _exists, _exists never goes from true to false, and save executes
\* the update statement exactly when _exists is set and the insert statement
\* otherwise.
C27_Lifecycle ==
    [][HasFlags(table) =>
          /\ deleted' => exists'
          /\ exists => exists'
          /\ call'.op = "save" =>
                IF exists THEN call'.stmts = <<"update">>
                ELSE call'.stmts \in {<<"insert">>, <<"insert_manual">>}]_vars

\* ---------------------------------------------------------------------- C28
\* the files Pre prepares: those fileNames returned and, when Pre emits the db
\* template, db.py
DestFiles ==
    fileNames(ctx.single, mode, set).files
        \cup (IF ~ctx.notFirst /\ ~ctx.append THEN {"db.py"} ELSE {})

\* the positions of emitted that hold a header template for the file f
HeadersOf(f) ==
    { k \in DOMAIN emitted : emitted[k].Partial = "header" /\ emitted[k].Dest = f }

\* the positions of emitted that hold the db template
DbTemplates == { k \in DOMAIN emitted : emitted[k].Partial = "db" }

\* the header at position k carries the content the file has in the output
CarriesContent(k) ==
    /\ emitted[k].Dest \in DOMAIN files
    /\ emitted[k].Src = "{{.Data}}"
    /\ emitted[k].Data = files[emitted[k].Dest].data

\* the header at position k is a fresh one
Fresh(k) == emitted[k].Src = "" /\ emitted[k].Data = ""

\* what the claim says Pre has emitted
OneHeaderEach ==
    /\ \A f \in DestFiles :
          /\ Cardinality(HeadersOf(f)) = 1
          /\ \A k \in HeadersOf(f) :
                IF ctx.append /\ f \in DOMAIN files THEN CarriesContent(k) ELSE Fresh(k)
    /\ \A k \in DOMAIN emitted : emitted[k].Partial = "header" => emitted[k].Dest \in DestFiles
    /\ Cardinality(DbTemplates) = (IF ~ctx.notFirst /\ ~ctx.append THEN 1 ELSE 0)

C29_FirstOnce ==
    \A k \in DOMAIN firsts : firsts[k] = (k = 1 /\ ~ctx.notFirst)

\* three calls on a Funcs value made with not-first unset: true, false, false
C29_Witness ==
    /\ ~ctx.notFirst
    /\ gpc = "funcs"
    /\ firsts = <<TRUE, FALSE, FALSE>>

\* C30: for every type name that is not empty and a conflict suffix that is
\* not empty, whatever short calls came before, short returns a name that is
\* not empty, is not a key of the table of Python's reserved names and is not
\* one of the names the templates use.
C30_ShortSafe ==
    (last.op = "short" /\ last.arg # "" /\ conflict # "") =>
        /\ last.res # ""
        /\ last.res \notin DOMAIN pythonReservedNames
        /\ last.res \notin templateReservedNames

====
